---- MODULE Spec2Model ----
(***************************************************************************)
(* libclangpy: the version-adaptive binding layer of libclang.py.          *)
(*                                                                         *)
(* The module-level globals of libclang.py (_libclang, version,            *)
(* _dynamic_types) are the state.  A loaded library is the CDLL object     *)
(* that ctypes creates: the set of symbols the shared object exports, the  *)
(* attributes cached on the object, and the signature attached to each     *)
(* function object.  Version numbers are the source's floats times ten     *)
(* (2.7 is 27), None is NoVersion.                                         *)
(*                                                                         *)
(* Python exceptions are modelled by the field exc of the running call's   *)
(* state: every step is skipped once exc is set, so an exception           *)
(* propagates to the caller unless a handler clears it.                    *)
(***************************************************************************)
EXTENDS Integers, Sequences, FiniteSets, TLC

VARIABLES
    _libclang,        \* the process-wide library handle (libclang.py:26)
    version,          \* the detected version (libclang.py:29)
    _dynamic_types,   \* the registry of version-dependent types (libclang.py:27)
    live,             \* native CXString handles allocated and not yet disposed
    py3,              \* the host interpreter: sys.version_info.major >= 3
    nlookup,          \* per symbol: native symbol lookups on the current handle
    nbind,            \* per symbol: completed signature attachments on the current handle
    heap,             \* the host wrappers of native allocations, and who refers to them
    _system,          \* platform.system() of the host (libclang.py:25)
    outcome           \* what the last operation did: exception, native calls, bodies run

vars == <<_libclang, version, _dynamic_types, live, py3, nlookup, nbind, heap, _system,
          outcome>>

(***************************************************************************)
(* Bounds of the model.                                                    *)
(***************************************************************************)
\* The native string heap has this many slots; a leak fills them.
MaxLive == 3
\* The lookup and attachment counters saturate here.
MaxCount == 3
\* Native cursors are 0..MaxCursor.
MaxCursor == 2
\* A cursor has at most this many children.
MaxChildren == 3
\* Native source locations are 0..MaxLoc.
MaxLoc == 2
\* Native files are 0..MaxFile.
MaxFile == 2
\* The largest line, column and offset a native call writes.
MaxLine == 1
\* The largest integer a value class wraps.
MaxValue == 0
\* The largest number of characters of a marshalled text.
MaxText == 1

NoVersion == 0

(***************************************************************************)
(* ctypes types.  A type is a constructor over a base name; a Python       *)
(* string used as a logical type name has constructor "str".               *)
(***************************************************************************)
T(ctor, base) == [ctor |-> ctor, base |-> base]
CType(name) == T("value", name)
Logical(name) == T("str", name)
POINTER(t) == T("POINTER", t.base)
POINTER2(t) == T("POINTER(POINTER)", t.base)
CFUNCTYPE(t) == T("CFUNCTYPE", t.base)

_CXCursor27 == CType("_CXCursor27")
_CXCursor30 == CType("_CXCursor30")
_CXString == CType("_CXString")
_CXSourceLocation == CType("_CXSourceLocation")
_CXSourceRange == CType("_CXSourceRange")
c_uint == CType("c_uint")
c_int == CType("c_int")
c_void_p == CType("c_void_p")
c_utf8_p == CType("c_utf8_p")
py_object == CType("py_object")
_CXToken == CType("_CXToken")
_CXType == CType("_CXType")
_CXUnsavedFile == CType("_CXUnsavedFile")
PyNone == CType("None")

\* The signature of a function object ctypes has just created.
DefaultSig == [argset |-> FALSE, argtypes |-> <<>>, restype |-> c_int]

(***************************************************************************)
(* The marker symbols, in the order _detect_version probes them.           *)
(***************************************************************************)
_version_checks ==
    << [v |-> 34, api |-> "clang_Type_getClassType"],
       [v |-> 33, api |-> "clang_getTypeSpelling"],
       [v |-> 32, api |-> "clang_Cursor_getReceiverType"],
       [v |-> 31, api |-> "clang_Cursor_getArgument"],
       [v |-> 30, api |-> "clang_Range_isNull"],
       [v |-> 29, api |-> "clang_getDiagnosticOption"],
       [v |-> 28, api |-> "clang_isUnexposed"],
       [v |-> 27, api |-> "clang_isInvalid"] >>

Markers == { _version_checks[i].api : i \in DOMAIN _version_checks }
Versions == { _version_checks[i].v : i \in DOMAIN _version_checks }

(***************************************************************************)
(* The native functions the modelled operations name, by the version       *)
(* their annotation gives.                                                 *)
(***************************************************************************)
Api27 == { "clang_getCString", "clang_disposeString", "clang_getFileName",
           "clang_getNullCursor", "clang_equalCursors",
           "clang_getRangeStart", "clang_getRangeEnd", "clang_equalLocations",
           "clang_getNullLocation", "clang_getNullRange", "clang_getRange",
           "clang_getInstantiationLocation",
           "clang_getLocation", "clang_getFile",
           "clang_getTranslationUnitCursor", "clang_getCursor", "clang_visitChildren",
           "clang_getCursorExtent",
           "clang_createIndex", "clang_disposeIndex",
           "clang_createTranslationUnit", "clang_createTranslationUnitFromSourceFile",
           "clang_disposeTranslationUnit",
           "clang_getNumDiagnostics", "clang_getDiagnostic", "clang_disposeDiagnostic",
           "clang_tokenize", "clang_disposeTokens" }
Api28 == { "clang_parseTranslationUnit", "clang_reparseTranslationUnit",
           "clang_saveTranslationUnit" }
Api29 == { "clang_getSpellingLocation", "clang_getDiagnosticCategory", "clang_getDiagnosticCategoryName",
           "clang_getLocationForOffset",
           "clang_getOverriddenCursors", "clang_disposeOverriddenCursors" }
Api30 == { "clang_equalRanges", "clang_Cursor_isNull" }
Api31 == { "clang_getDiagnosticCategoryText", "clang_getNumArgTypes", "clang_getArgType" }
\* A name the module uses that no libclang exports.
Misspelt == { "clang_getArgTypel" }

Symbols == Markers \cup Api27 \cup Api28 \cup Api29 \cup Api30 \cup Api31 \cup Misspelt

\* What a libclang release of version v exports, among Symbols.
ReleaseLib(v) ==
    { _version_checks[i].api : i \in { j \in DOMAIN _version_checks : _version_checks[j].v <= v } }
    \cup Api27
    \cup (IF v >= 28 THEN Api28 ELSE {})
    \cup (IF v >= 29 THEN Api29 ELSE {})
    \cup (IF v >= 30 THEN Api30 ELSE {})
    \cup (IF v >= 31 THEN Api31 ELSE {})

\* Shared objects that are no libclang release: none of the markers, and
\* some or none of the other functions.
ForeignLibs ==
    { {},
      { "clang_getNullCursor", "clang_equalCursors", "clang_getTranslationUnitCursor" } }

\* The shared objects a load can open in Spec.
InstalledLibs == { ReleaseLib(v) : v \in {27, 29, 30, 34} } \cup ForeignLibs

\* A smaller choice of shared objects: an old release, a release
\* with the extended cursor layout, and a shared object that is no libclang.
LifeLibs == { ReleaseLib(27), ReleaseLib(30), {} }

\* Every combination of marker symbols, for the version detector.
MarkerLibs == SUBSET Markers

(***************************************************************************)
(* The state of a running call: the module's globals, the native heap,     *)
(* the pending exception and the trace of what ran: calls is the sequence  *)
(* of native calls made, hist the string handles each of them handed out   *)
(* or was given, val the value the call returns, opened the files given to *)
(* cdll.LoadLibrary, unraisable the exceptions the interpreter reported    *)
(* and dropped.                                                            *)
(***************************************************************************)
Start ==
    [ lib |-> _libclang, version |-> version, types |-> _dynamic_types,
      live |-> live, nlookup |-> nlookup, nbind |-> nbind, heap |-> heap,
      exc |-> "none", calls |-> <<>>, hist |-> <<>>, ran |-> {}, ret |-> 0,
      fallback |-> FALSE, dfree |-> FALSE, made |-> 0, freed |-> 0, unraisable |-> {},
      val |-> <<>>, opened |-> <<>> ]

raised(st) == st.exc # "none"
raise(st, e) == [st EXCEPT !.exc = e]
\* A call returns this value.
return(st, v) == IF raised(st) THEN st ELSE [st EXCEPT !.val = v]
\* A call returns not x, x being what the call before it returned.
negated(st) == IF raised(st) THEN st ELSE [st EXCEPT !.val = ~st.val]
Bump(n) == IF n < MaxCount THEN n + 1 ELSE n

\* An input that is true, as it is recorded with the call.
Flag(b, name) == IF b THEN {name} ELSE {}

\* The globals after the call, and the record of the call: the operation,
\* the inputs that were true, and what the call did.
Commit(op, arg, st) ==
    /\ _libclang' = st.lib
    /\ version' = st.version
    /\ _dynamic_types' = st.types
    /\ live' = st.live
    /\ nlookup' = st.nlookup
    /\ nbind' = st.nbind
    /\ heap' = st.heap
    /\ _system' = _system
    /\ py3' = py3
    /\ outcome' = [ op |-> op, arg |-> arg, exc |-> st.exc, calls |-> st.calls,
                    hist |-> st.hist, ran |-> st.ran, fallback |-> st.fallback, dfree |-> st.dfree,
                    made |-> st.made, freed |-> st.freed, unraisable |-> st.unraisable,
                    val |-> IF raised(st) THEN <<>> ELSE st.val, opened |-> st.opened ]

NoLibrary ==
    [ open |-> FALSE, syms |-> {},
      attr |-> [n \in Symbols |-> "unset"], sig |-> [n \in Symbols |-> DefaultSig] ]

\* cdll.LoadLibrary: a new CDLL object, nothing cached on it.
LoadLibrary(L) ==
    [ open |-> TRUE, syms |-> L,
      attr |-> [n \in Symbols |-> "unset"], sig |-> [n \in Symbols |-> DefaultSig] ]

ZeroCount == [n \in Symbols |-> 0]

\* The wrapper classes that own a native allocation or keep its owner alive.
\* There is at most one wrapper of each class.  obj: the host object is not
\* yet created, alive, or finalized and gone; held: the caller has a
\* reference to it; native: the allocation it wraps is none (a null handle),
\* live or disposed; ndisp: dispose calls made on the allocation; refs: the
\* wrappers its attributes refer to.
\* "Token" is a Token taken from the TokenList and "OverriddenCursor" is a
\* Cursor taken from the OverriddenCursors list: neither owns an allocation,
\* the native structure each wraps lies in the buffer of its list.
Kinds ==
    { "Index", "TranslationUnit", "Diagnostic", "TokenList", "Cursor", "OverriddenCursors",
      "Token", "OverriddenCursor", "SourceLocation" }
\* dict: the attributes set on the object after its construction, by name;
\* seen: the cached properties of the object that have been read.
NoAttributes == [k \in {} |-> 0]
NoObject ==
    [ obj |-> "absent", held |-> FALSE, native |-> "none", ndisp |-> 0, refs |-> {},
      dict |-> NoAttributes, seen |-> {} ]
EmptyDict == [k \in {} |-> PyNone]

\* The globals as the import of the module leaves them.
Imported ==
    /\ _libclang = NoLibrary
    /\ version = NoVersion
    /\ _dynamic_types = EmptyDict
    /\ live = {}
    /\ py3 \in BOOLEAN
    /\ nlookup = ZeroCount
    /\ nbind = ZeroCount
    /\ heap = [k \in Kinds |-> NoObject]
    /\ outcome = [ op |-> "import", arg |-> {}, exc |-> "none", calls |-> <<>>,
                   hist |-> <<>>, ran |-> {},
                   fallback |-> FALSE, dfree |-> FALSE, made |-> 0, freed |-> 0,
                   unraisable |-> {}, val |-> <<>>, opened |-> <<>> ]

\* A Linux host.
Init == Imported /\ _system = "Linux"

\* Any host: the three the module knows and one it does not.
Systems == { "Darwin", "Linux", "Windows", "FreeBSD" }
InitAnyHost == Imported /\ _system \in Systems

(***************************************************************************)
(* getattr(_libclang, name).  On None it raises AttributeError.  On a CDLL *)
(* object an attribute already set on the object is returned as it is      *)
(* (a function object, or the None that optional stored); otherwise the    *)
(* symbol is looked up in the shared object and, when found, the new       *)
(* function object is cached on the CDLL object.                           *)
(***************************************************************************)
lib_getattr(st, name) ==
    IF raised(st) THEN st
    ELSE IF ~st.lib.open THEN raise(st, "AttributeError")
    ELSE IF st.lib.attr[name] # "unset" THEN st
    ELSE IF name \in st.lib.syms
         THEN [st EXCEPT !.lib.attr[name] = "func", !.nlookup[name] = Bump(@)]
         ELSE raise(st, "AttributeError")

\* hasattr(_libclang, api): getattr that answers False on AttributeError.
lib_hasattr(st, name) == ~raised(lib_getattr(st, name))

(***************************************************************************)
(* _detect_version: the first marker, in descending order, that the        *)
(* library has sets the global version and is returned; none raises.       *)
(***************************************************************************)
FirstPresent(st) ==
    LET present == { i \in DOMAIN _version_checks : lib_hasattr(st, _version_checks[i].api) }
    IN  IF present = {} THEN 0
        ELSE CHOOSE i \in present : \A j \in present : i <= j

\* A detector that takes the lowest marker present.
_detect_version_lowest(st) ==
    IF raised(st) THEN st
    ELSE LET present == { i \in DOMAIN _version_checks : lib_hasattr(st, _version_checks[i].api) }
         IN  IF present = {} THEN raise(st, "Exception")
             ELSE LET i == CHOOSE k \in present : \A j \in present : k >= j
                      s1 == lib_getattr(st, _version_checks[i].api)
                  IN  [s1 EXCEPT !.version = _version_checks[i].v, !.ret = _version_checks[i].v]

\* A detector that falls back to the oldest version when no marker is present.
_detect_version_default(st) ==
    IF raised(st) THEN st
    ELSE LET i == FirstPresent(st)
         IN  IF i = 0 THEN [st EXCEPT !.version = 27, !.ret = 27]
             ELSE LET s1 == lib_getattr(st, _version_checks[i].api)
                  IN  [s1 EXCEPT !.version = _version_checks[i].v, !.ret = _version_checks[i].v]

_detect_version(st) ==
    IF raised(st) THEN st
    ELSE LET i == FirstPresent(st)
         IN  IF i = 0 THEN raise(st, "Exception")
             ELSE LET s1 == lib_getattr(st, _version_checks[i].api)
                  IN  [s1 EXCEPT !.version = _version_checks[i].v, !.ret = _version_checks[i].v]

(***************************************************************************)
(* load: open the file, keep the handle, detect the version, then fill     *)
(* the four registry entries from the cursor layout of that version.       *)
(***************************************************************************)
CursorTypes(layout) ==
    ( "_CXCursor" :> layout
   @@ "_CXCursor*" :> POINTER(layout)
   @@ "_CXCursor**" :> POINTER2(layout)
   @@ "cb_cursor_visitor" :> CFUNCTYPE(layout) )

_lib_extension == [ Darwin |-> "dylib", Linux |-> "so", Windows |-> "dll" ]

\* '{0}'.format(v) of a version number: 3.4 for 34.
VersionText(v) ==
    CASE v = 27 -> "2.7" [] v = 28 -> "2.8" [] v = 29 -> "2.9" [] v = 30 -> "3.0"
      [] v = 31 -> "3.1" [] v = 32 -> "3.2" [] v = 33 -> "3.3" [] v = 34 -> "3.4"

\* A name that leaves the version override out.
library_name_bare(name, ver) ==
    IF name = "None" \/ name = "" THEN "libclang" ELSE name

\* The name load opens: name and ver are the arguments, "None" and
\* NoVersion when they are not given; an empty name counts as not given.
library_name(name, ver) ==
    LET n1 == IF name = "None" \/ name = "" THEN "libclang" ELSE name
    IN  IF ver # NoVersion THEN n1 \o "-" \o VersionText(ver) ELSE n1

\* An opener that hands back the CDLL object it made before, with what is
\* cached on it, pointed at the new file.
open_library_cached(st, file, found, L) ==
    IF raised(st) THEN st
    ELSE LET s1 == [st EXCEPT !.opened = Append(@, file)]
         IN  IF found
             THEN [s1 EXCEPT !.lib.open = TRUE, !.lib.syms = L]
             ELSE raise(s1, "OSError")

\* cdll.LoadLibrary(file): found says whether the file can be opened, L is
\* what it exports.
open_library(st, file, found, L) ==
    IF raised(st) THEN st
    ELSE LET s1 == [st EXCEPT !.opened = Append(@, file)]
         IN  IF found
             THEN [s1 EXCEPT !.lib = LoadLibrary(L), !.nlookup = ZeroCount, !.nbind = ZeroCount]
             ELSE raise(s1, "OSError")

\* The file name with the extension of the host; a host the table lacks
\* is a KeyError.
library_file(st, n) ==
    IF _system \in DOMAIN _lib_extension
    THEN return(st, n \o "." \o _lib_extension[_system])
    ELSE raise(st, "KeyError")

\* A load that takes the old layout up to and including 3.0.
load_boundary(st, name, ver, found, L) ==
    LET s0 == library_file(st, library_name(name, ver))
        s1 == open_library(s0, s0.val, found, L)
        s2 == _detect_version(s1)
    IN  IF raised(s2) THEN s2
        ELSE IF s2.ret > 30
             THEN [s2 EXCEPT !.types = CursorTypes(_CXCursor30) @@ @]
             ELSE [s2 EXCEPT !.types = CursorTypes(_CXCursor27) @@ @]

load(st, name, ver, found, L) ==
    LET s0 == library_file(st, library_name(name, ver))
        s1 == open_library(s0, s0.val, found, L)
        s2 == _detect_version(s1)
    IN  IF raised(s2) THEN s2
        ELSE IF s2.ret >= 30
             THEN [s2 EXCEPT !.types = CursorTypes(_CXCursor30) @@ @]
             ELSE [s2 EXCEPT !.types = CursorTypes(_CXCursor27) @@ @]

(***************************************************************************)
(* _map_type and _bind_api.                                                *)
(***************************************************************************)
\* _dynamic_types[t] raises KeyError for a string the registry lacks.
map_type_raises(st, t) == t.ctor = "str" /\ t.base \notin DOMAIN st.types

_map_type(st, t) == IF t.ctor = "str" THEN st.types[t.base] ELSE t

\* A binder that attaches the signature on every request.
_bind_api_rebind(st, name, argtypes, restype) ==
    IF raised(st) THEN st
    ELSE LET s1 == lib_getattr(st, name)
         IN  IF raised(s1) THEN raise(st, "MissingFunction")
             ELSE IF \E i \in DOMAIN argtypes : map_type_raises(s1, argtypes[i])
                  THEN raise(s1, "KeyError")
             ELSE IF s1.lib.attr[name] = "None" THEN raise(s1, "AttributeError")
             ELSE LET s2 == [s1 EXCEPT !.lib.sig[name].argset = TRUE,
                                       !.lib.sig[name].argtypes =
                                           [i \in DOMAIN argtypes |-> _map_type(s1, argtypes[i])]]
                  IN  IF map_type_raises(s2, restype) THEN raise(s2, "KeyError")
                      ELSE [s2 EXCEPT !.lib.sig[name].restype = _map_type(s2, restype),
                                      !.lib.attr[name] = "bound",
                                      !.nbind[name] = Bump(@)]

_bind_api(st, name, argtypes, restype) ==
    IF raised(st) THEN st
    ELSE LET s1 == lib_getattr(st, name)
         IN  IF raised(s1) THEN raise(st, "MissingFunction")
             ELSE IF s1.lib.attr[name] = "bound" THEN s1
             ELSE IF \E i \in DOMAIN argtypes : map_type_raises(s1, argtypes[i])
                  THEN raise(s1, "KeyError")
             ELSE IF s1.lib.attr[name] = "None" THEN raise(s1, "AttributeError")
             ELSE LET s2 == [s1 EXCEPT !.lib.sig[name].argset = TRUE,
                                       !.lib.sig[name].argtypes =
                                           [i \in DOMAIN argtypes |-> _map_type(s1, argtypes[i])]]
                  IN  IF map_type_raises(s2, restype) THEN raise(s2, "KeyError")
                      ELSE [s2 EXCEPT !.lib.sig[name].restype = _map_type(s2, restype),
                                      !.lib.attr[name] = "bound",
                                      !.nbind[name] = Bump(@)]

(***************************************************************************)
(* The decorators.  requires binds the named symbol, if it names one, and  *)
(* then runs the wrapped function; optional does the same but turns        *)
(* MissingFunction into a None stored on the library under that name.      *)
(* The version v an annotation declares is an argument neither decorator   *)
(* reads.                                                                  *)
(* The wrapped function is the steps that follow in the caller, which an   *)
(* exception skips.                                                        *)
(***************************************************************************)
NoName == ""

requires(st, v, name, argtypes, restype) ==
    IF raised(st) \/ name = NoName THEN st
    ELSE _bind_api(st, name, argtypes, restype)

\* An optional that lets the bind failure through.
optional_propagate(st, v, name, argtypes, restype) ==
    IF raised(st) THEN st
    ELSE _bind_api(st, name, argtypes, restype)

optional(st, v, name, argtypes, restype) ==
    IF raised(st) THEN st
    ELSE LET s1 == _bind_api(st, name, argtypes, restype)
         IN  IF s1.exc = "MissingFunction"
             THEN IF st.lib.open
                  THEN [st EXCEPT !.lib.attr[name] = "None"]
                  ELSE raise(st, "AttributeError")
             ELSE s1

\* The wrapped function's body starts running.
enter(st, f) == IF raised(st) THEN st ELSE [st EXCEPT !.ran = @ \cup {f}]

(***************************************************************************)
(* Native calls through the library object: _libclang.clang_X(...).        *)
(***************************************************************************)
native(st, name) ==
    IF raised(st) THEN st
    ELSE LET s1 == lib_getattr(st, name)
         IN  IF raised(s1) THEN s1
             ELSE IF s1.lib.attr[name] = "None" THEN raise(s1, "TypeError")
             ELSE [s1 EXCEPT !.calls = Append(@, name), !.hist = Append(@, {})]

\* if _libclang.clang_X: the attribute is None or a function pointer.
truthy(st, name) == lib_getattr(st, name).lib.attr[name] # "None"

FreeSlot(st) == CHOOSE h \in 1..MaxLive : h \notin st.live /\ \A k \in 1..MaxLive : k \notin st.live => h <= k

\* The native library hands out one more CXString.
new_string(st) ==
    IF raised(st) THEN st
    ELSE LET h == FreeSlot(st)
         IN  [st EXCEPT !.live = @ \cup {h}, !.ret = h, !.made = @ + 1,
                        !.hist[Len(st.hist)] = @ \cup {h}]

\* A native call that returns a CXString.
native_string(st, name) == new_string(native(st, name))

\* clang_getCString(s): under Python 3 the result is decoded as UTF-8.
getCString(st, s, valid) ==
    LET s1 == native(st, "clang_getCString")
        s2 == IF raised(s1) THEN s1 ELSE [s1 EXCEPT !.hist[Len(s1.hist)] = {s}]
    IN  IF raised(s2) THEN s2
        ELSE IF py3 /\ ~valid THEN raise(s2, "UnicodeDecodeError")
        ELSE s2

\* clang_disposeString(s).
disposeString(st, s) ==
    LET s1 == native(st, "clang_disposeString")
        s2 == IF raised(s1) THEN s1 ELSE [s1 EXCEPT !.hist[Len(s1.hist)] = {s}]
    IN  IF raised(s2) THEN s2
        ELSE IF s \in s2.live
             THEN [s2 EXCEPT !.live = @ \ {s}, !.freed = @ + 1]
             ELSE [s2 EXCEPT !.dfree = TRUE]

(***************************************************************************)
(* _to_str: read the string, then dispose of the handle.                   *)
(***************************************************************************)
_to_str(st, s, valid) ==
    LET s1 == requires(st, 27, "clang_getCString", <<_CXString>>, c_utf8_p)
        s2 == requires(s1, 27, "clang_disposeString", <<_CXString>>, PyNone)
        s3 == enter(s2, "_to_str")
        s4 == getCString(s3, s, valid)
    IN  disposeString(s4, s)

(***************************************************************************)
(* File.name                                                               *)
(***************************************************************************)
File_name(st, valid) ==
    LET s1 == requires(st, 27, "clang_getFileName", <<c_void_p>>, _CXString)
        s2 == enter(s1, "File.name")
        s3 == native_string(s2, "clang_getFileName")
    IN  _to_str(s3, s3.ret, valid)

(***************************************************************************)
(* Diagnostic._option: one native call fills two CXStrings, the option and *)
(* the option that disables it; both go through _to_str.                   *)
(***************************************************************************)
Diagnostic_option(st, valid1, valid2) ==
    LET s1 == requires(st, 29, "clang_getDiagnosticOption",
                       <<c_void_p, POINTER(_CXString)>>, _CXString)
        s2 == enter(s1, "Diagnostic._option")
        sd == new_string(native(s2, "clang_getDiagnosticOption"))
        so == new_string(sd)
        s3 == _to_str(so, so.ret, valid1)
    IN  _to_str(s3, sd.ret, valid2)

(***************************************************************************)
(* DiagnosticCategory.name, Diagnostic.category, Diagnostic.category_text  *)
(***************************************************************************)
DiagnosticCategory_init(st, value) ==
    LET s1 == requires(st, 29, NoName, <<>>, PyNone)
        s2 == enter(s1, "DiagnosticCategory.__init__")
    IN  return(s2, [value |-> value])

DiagnosticCategory_name(st, valid) ==
    LET s1 == requires(st, 29, "clang_getDiagnosticCategoryName", <<c_uint>>, _CXString)
        s2 == enter(s1, "DiagnosticCategory.name")
        s3 == native_string(s2, "clang_getDiagnosticCategoryName")
    IN  _to_str(s3, s3.ret, valid)

\* value: the category number the native call answers.
Diagnostic_category(st, value) ==
    LET s1 == requires(st, 29, "clang_getDiagnosticCategory", <<c_void_p>>, c_uint)
        s2 == enter(s1, "Diagnostic.category")
        s3 == native(s2, "clang_getDiagnosticCategory")
    IN  DiagnosticCategory_init(s3, value)

Diagnostic_category_text(st, valid) ==
    LET s0 == requires(st, 29, NoName, <<>>, PyNone)
        s1 == optional(s0, 31, "clang_getDiagnosticCategoryText", <<c_void_p>>, _CXString)
        s2 == enter(s1, "Diagnostic.category_text")
    IN  IF raised(s2) THEN s2
        ELSE IF truthy(s2, "clang_getDiagnosticCategoryText")
        THEN LET s3 == native_string(s2, "clang_getDiagnosticCategoryText")
             IN  _to_str(s3, s3.ret, valid)
        ELSE DiagnosticCategory_name(
                 Diagnostic_category([s2 EXCEPT !.fallback = TRUE], 1), valid)

(***************************************************************************)
(* SourceLocation and SourceRange.  Native locations are numbered, the     *)
(* null location is 0; a native range is its start and its end, the null   *)
(* range has both null.  The native equality predicates answer whether the *)
(* two values are the same.                                                *)
(***************************************************************************)
NullLocation == 0
Locs == 0..MaxLoc
NullRange == <<NullLocation, NullLocation>>

\* What the native accessors of a range answer.
clang_getRangeStart(sr) == sr[1]
clang_getRangeEnd(sr) == sr[2]

SourceLocation_init(st, sl) ==
    LET s1 == requires(st, 27, NoName, <<>>, PyNone)
        s2 == enter(s1, "SourceLocation.__init__")
    IN  return(s2, sl)

SourceLocation_eq(st, sl, other) ==
    LET s1 == requires(st, 27, "clang_equalLocations",
                       <<_CXSourceLocation, _CXSourceLocation>>, c_uint)
        s2 == enter(s1, "SourceLocation.__eq__")
    IN  return(native(s2, "clang_equalLocations"), sl = other)

SourceLocation_ne(st, sl, other) ==
    LET s1 == requires(st, 27, NoName, <<>>, PyNone)
        s2 == enter(s1, "SourceLocation.__ne__")
    IN  negated(SourceLocation_eq(s2, sl, other))

SourceLocation_null(st) ==
    LET s1 == requires(st, 27, "clang_getNullLocation", <<>>, _CXSourceLocation)
        s2 == enter(s1, "SourceLocation.null")
        s3 == native(s2, "clang_getNullLocation")
    IN  SourceLocation_init(s3, NullLocation)

\* isRange: start is a native range, which the wrapper takes as it is;
\* otherwise start and end are locations and the native call joins them.
SourceRange_init(st, isRange, start, end) ==
    LET s0 == requires(st, 27, NoName, <<>>, PyNone)
        s1 == requires(s0, 27, "clang_getRange",
                       <<_CXSourceLocation, _CXSourceLocation>>, _CXSourceRange)
        s2 == enter(s1, "SourceRange.__init__")
    IN  IF isRange THEN return(s2, start)
        ELSE return(native(s2, "clang_getRange"), <<start, end>>)

SourceRange_null(st) ==
    LET s1 == requires(st, 27, "clang_getNullRange", <<>>, _CXSourceRange)
        s2 == enter(s1, "SourceRange.null")
        s3 == native(s2, "clang_getNullRange")
    IN  SourceRange_init(s3, TRUE, NullRange, "None")

SourceRange_start(st, sr) ==
    LET s1 == requires(st, 27, "clang_getRangeStart", <<_CXSourceRange>>, _CXSourceLocation)
        s2 == enter(s1, "SourceRange.start")
        s3 == native(s2, "clang_getRangeStart")
    IN  SourceLocation_init(s3, clang_getRangeStart(sr))

SourceRange_end(st, sr) ==
    LET s1 == requires(st, 27, "clang_getRangeEnd", <<_CXSourceRange>>, _CXSourceLocation)
        s2 == enter(s1, "SourceRange.end")
        s3 == native(s2, "clang_getRangeStart")
    IN  SourceLocation_init(s3, clang_getRangeStart(sr))

\* a.val == b.val, a and b being the calls that returned the two locations.
locations_equal(a, b) == IF raised(b) THEN b ELSE SourceLocation_eq(b, a.val, b.val)

\* self.start == other.start, a being the call that returned self.start.
starts_equal(a, other) == locations_equal(a, SourceRange_start(a, other))

\* self.end == other.end, a being the call that returned self.end.
ends_equal(a, other) == locations_equal(a, SourceRange_end(a, other))

\* ... and self.end == other.end, e being the comparison of the starts.
and_ends_equal(e, sr, other) ==
    IF raised(e) \/ ~e.val THEN e ELSE ends_equal(SourceRange_end(e, sr), other)

SourceRange_eq(st, sr, other) ==
    LET s0 == requires(st, 27, NoName, <<>>, PyNone)
        s1 == optional(s0, 30, "clang_equalRanges",
                       <<_CXSourceRange, _CXSourceRange>>, c_uint)
        s2 == enter(s1, "SourceRange.__eq__")
    IN  IF raised(s2) THEN s2
        ELSE IF truthy(s2, "clang_equalRanges")
        THEN return(native(s2, "clang_equalRanges"), sr = other)
        ELSE and_ends_equal(
                 starts_equal(SourceRange_start([s2 EXCEPT !.fallback = TRUE], sr), other),
                 sr, other)

SourceRange_ne(st, sr, other) ==
    LET s1 == requires(st, 27, NoName, <<>>, PyNone)
        s2 == enter(s1, "SourceRange.__ne__")
    IN  negated(SourceRange_eq(s2, sr, other))

(***************************************************************************)
(* Cursor.null, Cursor.__eq__ and Cursor.is_null                           *)
(***************************************************************************)
\* Native cursors are numbered; the native library's null cursor is 0, and
\* clang_equalCursors answers whether two cursors are the same one.
NullCursor == 0
CursorHandles == 0..MaxCursor

Cursor_init(st, c, parent, tu) ==
    LET s1 == requires(st, 27, NoName, <<>>, PyNone)
        s2 == enter(s1, "Cursor.__init__")
    IN  return(s2, [c |-> c, parent |-> parent, tu |-> tu])

Cursor_null(st) ==
    LET s1 == requires(st, 27, "clang_getNullCursor", <<>>, Logical("_CXCursor"))
        s2 == enter(s1, "Cursor.null")
        s3 == native(s2, "clang_getNullCursor")
    IN  Cursor_init(s3, NullCursor, "None", "None")

Cursor_eq(st, c, other) ==
    LET s1 == requires(st, 27, "clang_equalCursors",
                       <<Logical("_CXCursor"), Logical("_CXCursor")>>, c_uint)
        s2 == enter(s1, "Cursor.__eq__")
    IN  return(native(s2, "clang_equalCursors"), c = other)

Cursor_ne(st, c, other) ==
    LET s1 == requires(st, 27, NoName, <<>>, PyNone)
        s2 == enter(s1, "Cursor.__ne__")
    IN  negated(Cursor_eq(s2, c, other))

Cursor_is_null(st, c) ==
    LET s0 == requires(st, 27, NoName, <<>>, PyNone)
        s1 == optional(s0, 30, "clang_Cursor_isNull", <<Logical("_CXCursor")>>, c_int)
        s2 == enter(s1, "Cursor.is_null")
    IN  IF raised(s2) THEN s2
        ELSE IF truthy(s2, "clang_Cursor_isNull")
        THEN return(native(s2, "clang_Cursor_isNull"), c = NullCursor)
        ELSE LET s3 == Cursor_null([s2 EXCEPT !.fallback = TRUE])
             IN  IF raised(s3) THEN s3 ELSE Cursor_eq(s3, c, s3.val.c)

(***************************************************************************)
(* Cursor.children.  clang_visitChildren calls the callback once for each  *)
(* child, in order, and stops when the callback answers 0 (break); the     *)
(* callback answers 1 (continue).  An exception raised inside a ctypes     *)
(* callback is reported and dropped, and the callback then answers 0.      *)
(***************************************************************************)
\* child != Cursor.null(), st being the call that returned the null cursor.
differs_from_null(st, child) ==
    IF raised(st) THEN st ELSE Cursor_ne(st, child, st.val.c)

\* The callback after the comparison st: the child c joins the list when
\* the comparison answered True, and the callback answers continue.
append_if(st, c, children) ==
    IF raised(st) THEN st
    ELSE [st EXCEPT !.val = IF st.val THEN Append(children, c) ELSE children, !.ret = 1]

\* The same, for a callback that does not look at the comparison.
append_always(st, c, children) ==
    IF raised(st) THEN st
    ELSE [st EXCEPT !.val = Append(children, c), !.ret = 1]

\* A callback that keeps every child.
visitor_keepall(st, child, parent, children) ==
    append_always(differs_from_null(Cursor_null(st), child),
                  Cursor_init(st, child, parent, "TranslationUnit").val, children)

\* children: the list collected so far; the answer is in ret, the list in val.
visitor(st, child, parent, children) ==
    append_if(differs_from_null(Cursor_null(Cursor_init(st, child, parent,
                                                        "TranslationUnit")), child),
              Cursor_init(st, child, parent, "TranslationUnit").val, children)

\* The native traversal over the children kids of cursor c.  An exception
\* in the callback is reported and dropped, and the traversal stops.
RECURSIVE clang_visitChildren(_, _, _, _)
RECURSIVE visited(_, _, _, _, _)
visited(st, s1, c, kids, children) ==
    IF raised(s1)
    THEN [st EXCEPT !.lib = s1.lib, !.nlookup = s1.nlookup, !.nbind = s1.nbind,
                    !.calls = s1.calls, !.hist = s1.hist, !.ran = s1.ran,
                    !.unraisable = @ \cup {<<"visitor", s1.exc>>},
                    !.val = children]
    ELSE IF s1.ret = 0 THEN s1
    ELSE clang_visitChildren(s1, c, Tail(kids), s1.val)

clang_visitChildren(st, c, kids, children) ==
    IF kids = <<>> THEN return(st, children)
    ELSE visited(st, visitor(st, Head(kids), c, children), c, kids, children)

Cursor_children(st, c, kids) ==
    LET s1 == requires(st, 27, "clang_visitChildren",
                       <<Logical("_CXCursor"), Logical("cb_cursor_visitor"), py_object>>,
                       c_uint)
        s2 == enter(s1, "Cursor.children")
        s3 == IF raised(s2) THEN s2
              ELSE IF map_type_raises(s2, Logical("cb_cursor_visitor"))
              THEN raise(s2, "KeyError")
              ELSE native(s2, "clang_visitChildren")
    IN  IF raised(s3) THEN s3 ELSE clang_visitChildren(s3, c, kids, <<>>)

(***************************************************************************)
(* TranslationUnit.file, TranslationUnit.location, TranslationUnit.cursor  *)
(***************************************************************************)
\* Native files are numbered; the null file, which ctypes hands over as
\* None, is 0.
NullFile == 0
FileHandles == 0..MaxFile

File_init(st, f) ==
    LET s1 == requires(st, 27, NoName, <<>>, PyNone)
        s2 == enter(s1, "File.__init__")
    IN  return(s2, [f |-> f])

\* A lookup that wraps whatever the native call answers.
TranslationUnit_file_unchecked(st, ret) ==
    LET s1 == requires(st, 27, "clang_getFile", <<c_void_p, c_utf8_p>>, c_void_p)
        s2 == enter(s1, "TranslationUnit.file")
        s3 == native(s2, "clang_getFile")
    IN  File_init(s3, ret)

\* ret: what clang_getFile answers for the file name.
TranslationUnit_file(st, ret) ==
    LET s1 == requires(st, 27, "clang_getFile", <<c_void_p, c_utf8_p>>, c_void_p)
        s2 == enter(s1, "TranslationUnit.file")
        s3 == native(s2, "clang_getFile")
    IN  IF raised(s3) THEN s3
        ELSE IF ret = NullFile THEN raise(s3, "Exception")
        ELSE File_init(s3, ret)

(***************************************************************************)
(* SourceLocationData and the accessors of SourceLocation that read it.    *)
(* A native call writes a file handle, a line, a column and an offset into *)
(* its out-parameters; for the null location it writes the null file and   *)
(* zeros.                                                                  *)
(***************************************************************************)
\* filename=None
NoFilename == 0

\* What a wrapper has for a file: None, a File or a str.
AbsentFile == [ kind |-> "None", f |-> NullFile ]
FileOf(f) == [ kind |-> "File", f |-> f ]
NameOf(s) == [ kind |-> "str", f |-> s ]

\* What clang_getInstantiationLocation writes for sl, w being what it
\* writes for a location that is not null.
written(sl, w) == IF sl = NullLocation THEN <<NullFile, 0, 0, 0>> ELSE w

data(st, file, l, c, o) ==
    return(st, [ file |-> file, line |-> l, column |-> c, offset |-> o ])

\* A record that wraps the file handle without looking at it.
SourceLocationData_init_wrap(st, l, c, o, cxfile, filename, valid) ==
    IF raised(st) THEN st
    ELSE IF filename # NoFilename
         THEN data(_to_str(st, filename, valid), NameOf(filename), l, c, o)
         ELSE data(File_init(st, cxfile), FileOf(cxfile), l, c, o)

\* valid: the file name is UTF-8.
SourceLocationData_init(st, l, c, o, cxfile, filename, valid) ==
    IF raised(st) THEN st
    ELSE IF filename # NoFilename
         THEN data(_to_str(st, filename, valid), NameOf(filename), l, c, o)
         ELSE IF cxfile # NullFile
         THEN data(File_init(st, cxfile), FileOf(cxfile), l, c, o)
         ELSE data(st, AbsentFile, l, c, o)

\* w: what the native call writes into f, l, c and o.
SourceLocation_instantiation_location(st, sl, w) ==
    LET s1 == requires(st, 27, "clang_getInstantiationLocation",
                       <<_CXSourceLocation, POINTER(c_void_p), POINTER(c_uint),
                         POINTER(c_uint), POINTER(c_uint)>>, PyNone)
        s2 == enter(s1, "SourceLocation.instantiation_location")
        s3 == native(s2, "clang_getInstantiationLocation")
    IN  SourceLocationData_init(s3, w[2], w[3], w[4], w[1], NoFilename, TRUE)

SourceLocation_spelling_location(st, sl, w) ==
    LET s1 == requires(st, 29, "clang_getSpellingLocation",
                       <<_CXSourceLocation, POINTER(c_void_p), POINTER(c_uint),
                         POINTER(c_uint), POINTER(c_uint)>>, PyNone)
        s2 == enter(s1, "SourceLocation.spelling_location")
        s3 == native(s2, "clang_getSpellingLocation")
    IN  SourceLocationData_init(s3, w[2], w[3], w[4], w[1], NoFilename, TRUE)

SourceLocation_is_null(st, sl) ==
    LET s1 == requires(st, 27, NoName, <<>>, PyNone)
        s2 == enter(s1, "SourceLocation.is_null")
        s3 == SourceLocation_null(s2)
    IN  IF raised(s3) THEN s3 ELSE SourceLocation_eq(s3, sl, s3.val)

SourceLocation_file(st, sl, w) ==
    LET s1 == requires(st, 27, NoName, <<>>, PyNone)
        s2 == enter(s1, "SourceLocation.file")
        s3 == SourceLocation_instantiation_location(s2, sl, w)
    IN  IF raised(s3) THEN s3 ELSE return(s3, s3.val.file)

SourceLocation_line(st, sl, w) ==
    LET s1 == requires(st, 27, NoName, <<>>, PyNone)
        s2 == enter(s1, "SourceLocation.line")
        s3 == SourceLocation_instantiation_location(s2, sl, w)
    IN  IF raised(s3) THEN s3 ELSE return(s3, s3.val.line)

SourceLocation_column(st, sl, w) ==
    LET s1 == requires(st, 27, NoName, <<>>, PyNone)
        s2 == enter(s1, "SourceLocation.column")
        s3 == SourceLocation_instantiation_location(s2, sl, w)
    IN  IF raised(s3) THEN s3 ELSE return(s3, s3.val.column)

SourceLocation_offset(st, sl, w) ==
    LET s1 == requires(st, 27, NoName, <<>>, PyNone)
        s2 == enter(s1, "SourceLocation.offset")
        s3 == SourceLocation_instantiation_location(s2, sl, w)
    IN  IF raised(s3) THEN s3 ELSE return(s3, s3.val.offset)

\* byName: cxfile is a str; hasLine: line # -1; hasOffset: offset # -1.
TranslationUnit_location(st, byName, found, hasLine, hasOffset) ==
    LET s0 == requires(st, 27, "clang_getLocation",
                       <<c_void_p, c_void_p, c_uint, c_uint>>, _CXSourceLocation)
        s1 == optional(s0, 29, "clang_getLocationForOffset",
                       <<c_void_p, c_void_p, c_uint>>, _CXSourceLocation)
        s2 == enter(s1, "TranslationUnit.location")
        s3 == IF byName THEN TranslationUnit_file(s2, IF found THEN 1 ELSE NullFile) ELSE s2
    IN  IF raised(s3) THEN s3
        ELSE IF hasLine THEN native(s3, "clang_getLocation")
        ELSE IF hasOffset /\ truthy(s3, "clang_getLocationForOffset")
        THEN native(s3, "clang_getLocationForOffset")
        ELSE raise([s3 EXCEPT !.fallback = TRUE], "Exception")

\* atLocation: a source_location is given.
TranslationUnit_cursor(st, atLocation) ==
    LET s1 == requires(st, 27, "clang_getTranslationUnitCursor",
                       <<c_void_p>>, Logical("_CXCursor"))
        s2 == requires(s1, 27, "clang_getCursor",
                       <<c_void_p, _CXSourceLocation>>, Logical("_CXCursor"))
        s3 == enter(s2, "TranslationUnit.cursor")
    IN  IF atLocation THEN native(s3, "clang_getCursor")
        ELSE native(s3, "clang_getTranslationUnitCursor")

(***************************************************************************)
(* The enum-like and flag value classes: a wrapper of one integer, with    *)
(* __eq__, __ne__ and __hash__ on that integer.  Each method carries the   *)
(* version annotation of its class and names no symbol.                    *)
(***************************************************************************)
ValueClasses ==
    { "DiagnosticDisplayOptions", "DiagnosticSeverity", "DiagnosticCategory", "Linkage",
      "TokenKind", "CallingConvention", "ObjCPropertyAttributes", "ObjCDeclQualifierKind",
      "CursorKind", "TypeKind", "AvailabilityKind", "LanguageKind", "AccessSpecifier",
      "NameRefFlags", "TranslationUnitFlags", "SaveTranslationUnitFlags",
      "ReparseTranslationUnitFlags", "GlobalOptionFlags" }

\* The version in the annotations of a value class.
ClassVersion(cls) ==
    CASE cls \in { "DiagnosticDisplayOptions", "DiagnosticSeverity", "Linkage", "TokenKind",
                   "CursorKind" } -> 27
      [] cls \in { "TypeKind", "AvailabilityKind", "LanguageKind", "AccessSpecifier",
                   "TranslationUnitFlags", "SaveTranslationUnitFlags",
                   "ReparseTranslationUnitFlags" } -> 28
      [] cls = "DiagnosticCategory" -> 29
      [] cls = "NameRefFlags" -> 30
      [] cls \in { "CallingConvention", "GlobalOptionFlags" } -> 31
      [] cls \in { "ObjCPropertyAttributes", "ObjCDeclQualifierKind" } -> 33

\* hash(n) of a small int: n, but -2 for -1.
py_hash(n) == IF n = -1 THEN -2 ELSE n

Value_init(st, cls, value) ==
    LET s1 == requires(st, ClassVersion(cls), NoName, <<>>, PyNone)
        s2 == enter(s1, cls \o ".__init__")
    IN  return(s2, [value |-> value])

Value_eq(st, cls, a, b) ==
    LET s1 == requires(st, ClassVersion(cls), NoName, <<>>, PyNone)
        s2 == enter(s1, cls \o ".__eq__")
    IN  return(s2, a.value = b.value)

\* A __ne__ that answers whether self.value is the greater one.
Value_ne_greater(st, cls, a, b) ==
    LET s1 == requires(st, ClassVersion(cls), NoName, <<>>, PyNone)
        s2 == enter(s1, cls \o ".__ne__")
    IN  return(s2, a.value > b.value)

Value_ne(st, cls, a, b) ==
    LET s1 == requires(st, ClassVersion(cls), NoName, <<>>, PyNone)
        s2 == enter(s1, cls \o ".__ne__")
    IN  return(s2, a.value # b.value)

Value_hash(st, cls, a) ==
    LET s1 == requires(st, ClassVersion(cls), NoName, <<>>, PyNone)
        s2 == enter(s1, cls \o ".__hash__")
    IN  return(s2, py_hash(a.value))

\* Two values in turn: the call b follows the call a, and the pair of what
\* they returned is the value.
pair(a, b) == return(b, <<a.val, b.val>>)

\* cls(x), then cls(y).
two_values(st, cls, x, y) == pair(Value_init(st, cls, x), Value_init(Value_init(st, cls, x), cls, y))

\* hash(a), then hash(b).
two_hashes(st, cls, a, b) == pair(Value_hash(st, cls, a), Value_hash(Value_hash(st, cls, a), cls, b))

\* The comparisons and the hashes of the instances the call ab returned.
values_eq(ab, cls) == IF raised(ab) THEN ab ELSE Value_eq(ab, cls, ab.val[1], ab.val[2])
values_ne(ab, cls) == IF raised(ab) THEN ab ELSE Value_ne(ab, cls, ab.val[1], ab.val[2])
values_hash(ab, cls) == IF raised(ab) THEN ab ELSE two_hashes(ab, cls, ab.val[1], ab.val[2])

(***************************************************************************)
(* Type.argument_types: a generator; the annotations bind when the         *)
(* property is read, the body runs when the result is iterated.            *)
(***************************************************************************)
\* n: the number of argument types the native call answers.
Type_argument_types(st, n) ==
    LET s1 == requires(st, 31, "clang_getArgType", <<_CXType, c_uint>>, _CXType)
        s2 == requires(s1, 31, "clang_getNumArgTypes", <<_CXType>>, c_int)
        s3 == enter(s2, "Type.argument_types")
        s4 == native(s3, "clang_getNumArgTypes")
    IN  IF n = 0 THEN return(s4, <<>>) ELSE native(s4, "clang_getArgTypel")

(***************************************************************************)
(* _marshall_args and _marshall_unsaved_files.  A text is its sequence of  *)
(* code points, an encoded text its sequence of bytes.  An argument that   *)
(* is not given is None; a native array that is None has null TRUE.        *)
(***************************************************************************)
\* The UTF-8 bytes of one code point.
utf8(cp) ==
    IF cp < 128 THEN << cp >>
    ELSE IF cp < 2048 THEN << 192 + (cp \div 64), 128 + (cp % 64) >>
    ELSE IF cp < 65536
    THEN << 224 + (cp \div 4096), 128 + ((cp \div 64) % 64), 128 + (cp % 64) >>
    ELSE << 240 + (cp \div 262144), 128 + ((cp \div 4096) % 64),
            128 + ((cp \div 64) % 64), 128 + (cp % 64) >>

\* text.encode('utf-8')
RECURSIVE encode(_)
encode(text) == IF text = <<>> THEN <<>> ELSE utf8(Head(text)) \o encode(Tail(text))

NoSequence == [ given |-> FALSE, items |-> <<>> ]
Given(items) == [ given |-> TRUE, items |-> items ]
NullArray == [ null |-> TRUE, items |-> <<>> ]

_marshall_args(st, args) ==
    IF raised(st) THEN st
    ELSE IF ~args.given \/ Len(args.items) = 0 THEN return(st, << 0, NullArray >>)
    ELSE return(st, << Len(args.items),
                       [ null |-> FALSE,
                         items |-> [i \in DOMAIN args.items |-> encode(args.items[i])] ] >>)

\* One element of the array: f is the pair of a name and the contents, which
\* are a text or a stream that read() empties.
unsaved_file(f) ==
    [ filename |-> encode(f.name), contents |-> encode(f.contents),
      length |-> Len(encode(f.contents)) ]

\* An element whose length is the number of characters.
unsaved_file_chars(f) ==
    [ filename |-> encode(f.name), contents |-> encode(f.contents),
      length |-> Len(f.contents) ]

\* A marshaller that counts characters.
_marshall_unsaved_files_chars(st, unsaved_files) ==
    IF raised(st) THEN st
    ELSE IF ~unsaved_files.given \/ Len(unsaved_files.items) = 0
    THEN return(st, << 0, NullArray >>)
    ELSE return(st, << Len(unsaved_files.items),
                       [ null |-> FALSE,
                         items |-> [i \in DOMAIN unsaved_files.items |->
                                        unsaved_file_chars(unsaved_files.items[i])] ] >>)

_marshall_unsaved_files(st, unsaved_files) ==
    IF raised(st) THEN st
    ELSE IF ~unsaved_files.given \/ Len(unsaved_files.items) = 0
    THEN return(st, << 0, NullArray >>)
    ELSE return(st, << Len(unsaved_files.items),
                       [ null |-> FALSE,
                         items |-> [i \in DOMAIN unsaved_files.items |->
                                        unsaved_file(unsaved_files.items[i])] ] >>)

(***************************************************************************)
(* TranslationUnit.reparse                                                 *)
(***************************************************************************)
TranslationUnit_reparse(st, unsaved_files) ==
    LET s1 == requires(st, 28, "clang_reparseTranslationUnit",
                       <<c_void_p, c_uint, POINTER(_CXUnsavedFile), c_uint>>, c_int)
        s2 == enter(s1, "TranslationUnit.reparse")
        s3 == _marshall_unsaved_files(s2, unsaved_files)
    IN  native(s3, "clang_saveTranslationUnit")

(***************************************************************************)
(* The wrappers of native allocations.  A constructor records the handle   *)
(* and the references the new object keeps; __del__ binds the dispose      *)
(* function and calls it on the handle.                                    *)
(***************************************************************************)
\* A new host object, which the caller holds.
new_object(st, kind, handle, refs) ==
    IF raised(st) THEN st
    ELSE [st EXCEPT !.heap[kind] =
              [ obj |-> "alive", held |-> TRUE, native |-> handle, ndisp |-> 0, refs |-> refs,
                dict |-> NoAttributes, seen |-> {} ]]

\* The native dispose function is called on the handle the wrapper holds.
dispose_native(st, kind) ==
    IF raised(st) THEN st
    ELSE [st EXCEPT !.heap[kind].native = IF @ = "live" THEN "disposed" ELSE @,
                    !.heap[kind].ndisp = Bump(@)]

Index_init(st) ==
    LET s1 == requires(st, 27, "clang_createIndex", <<c_int, c_int>>, c_void_p)
        s2 == enter(s1, "Index.__init__")
        s3 == native(s2, "clang_createIndex")
    IN  new_object(s3, "Index", "live", {})

Index_del(st) ==
    LET s1 == requires(st, 27, "clang_disposeIndex", <<c_void_p>>, PyNone)
        s2 == enter(s1, "Index.__del__")
    IN  dispose_native(native(s2, "clang_disposeIndex"), "Index")

TranslationUnit_init(st, tu, index) ==
    LET s1 == requires(st, 27, NoName, <<>>, PyNone)
        s2 == enter(s1, "TranslationUnit.__init__")
    IN  new_object(s2, "TranslationUnit", tu, {index})

TranslationUnit_del(st) ==
    LET s1 == requires(st, 27, "clang_disposeTranslationUnit", <<c_void_p>>, PyNone)
        s2 == enter(s1, "TranslationUnit.__del__")
    IN  dispose_native(native(s2, "clang_disposeTranslationUnit"), "TranslationUnit")

\* tu: what the native call returns, "live" for a translation unit and
\* "none" for the null handle of a failure.
Index_from_ast(st, tu) ==
    LET s1 == requires(st, 27, "clang_createTranslationUnit", <<c_void_p, c_utf8_p>>, c_void_p)
        s2 == enter(s1, "Index.from_ast")
        s3 == native(s2, "clang_createTranslationUnit")
    IN  TranslationUnit_init(s3, tu, "Index")

Index_from_source(st, tu) ==
    LET s1 == requires(st, 27, "clang_createTranslationUnitFromSourceFile",
                       <<c_void_p, c_utf8_p, c_int, POINTER(c_utf8_p), c_uint,
                         POINTER(_CXUnsavedFile)>>, c_void_p)
        s2 == enter(s1, "Index.from_source")
        s3 == native(s2, "clang_createTranslationUnitFromSourceFile")
    IN  TranslationUnit_init(s3, tu, "Index")

Index_parse(st, tu) ==
    LET s1 == requires(st, 28, "clang_parseTranslationUnit",
                       <<c_void_p, c_utf8_p, POINTER(c_utf8_p), c_uint,
                         POINTER(_CXUnsavedFile), c_uint, c_uint>>, c_void_p)
        s2 == enter(s1, "Index.parse")
        s3 == native(s2, "clang_parseTranslationUnit")
    IN  TranslationUnit_init(s3, tu, "Index")

Diagnostic_init(st, d) ==
    LET s1 == requires(st, 27, NoName, <<>>, PyNone)
        s2 == enter(s1, "Diagnostic.__init__")
    IN  new_object(s2, "Diagnostic", d, {})

Diagnostic_del(st) ==
    LET s1 == requires(st, 27, "clang_disposeDiagnostic", <<c_void_p>>, PyNone)
        s2 == enter(s1, "Diagnostic.__del__")
    IN  dispose_native(native(s2, "clang_disposeDiagnostic"), "Diagnostic")

\* The generator, run to its first diagnostic when there is one.
TranslationUnit_diagnostics(st, some) ==
    LET s1 == requires(st, 27, "clang_getNumDiagnostics", <<c_void_p>>, c_uint)
        s2 == requires(s1, 27, "clang_getDiagnostic", <<c_void_p, c_uint>>, c_void_p)
        s3 == enter(s2, "TranslationUnit.diagnostics")
        s4 == native(s3, "clang_getNumDiagnostics")
    IN  IF raised(s4) \/ ~some THEN s4
        ELSE Diagnostic_init(native(s4, "clang_getDiagnostic"), "live")

TokenList_init(st, tu, tokens) ==
    LET s1 == requires(st, 27, NoName, <<>>, PyNone)
        s2 == enter(s1, "TokenList.__init__")
    IN  new_object(s2, "TokenList", tokens, {tu})

TokenList_del(st) ==
    LET s1 == requires(st, 27, "clang_disposeTokens",
                       <<c_void_p, POINTER(_CXToken), c_uint>>, PyNone)
        s2 == enter(s1, "TokenList.__del__")
    IN  dispose_native(native(s2, "clang_disposeTokens"), "TokenList")

\* tokens: "live" for an array of tokens, "none" when the range has none.
TranslationUnit_tokenize(st, tokens) ==
    LET s1 == requires(st, 27, "clang_tokenize",
                       <<c_void_p, _CXSourceRange, POINTER2(_CXToken), POINTER(c_uint)>>, PyNone)
        s2 == enter(s1, "TranslationUnit.tokenize")
        s3 == native(s2, "clang_tokenize")
    IN  TokenList_init(s3, "TranslationUnit", tokens)

\* The tu argument of the constructor is the cursor, as Cursor.overridden
\* passes it.
OverriddenCursors_init(st, tu, cursors) ==
    LET s1 == requires(st, 29, NoName, <<>>, PyNone)
        s2 == enter(s1, "OverriddenCursors.__init__")
    IN  IF raised(s2) THEN s2
        ELSE IF cursors = "live" /\ map_type_raises(s2, Logical("_CXCursor"))
        THEN raise(s2, "KeyError")
        ELSE new_object(s2, "OverriddenCursors", cursors, {tu})

OverriddenCursors_del(st) ==
    LET s1 == requires(st, 29, "clang_disposeOverriddenCursors",
                       <<Logical("_CXCursor*")>>, PyNone)
        s2 == enter(s1, "OverriddenCursors.__del__")
    IN  dispose_native(native(s2, "clang_disposeOverriddenCursors"), "OverriddenCursors")

\* cursors: "live" for an array of cursors, "none" when nothing is overridden.
Cursor_overridden(st, cursors) ==
    LET s1 == requires(st, 29, "clang_getOverriddenCursors",
                       <<Logical("_CXCursor"), Logical("_CXCursor**"), POINTER(c_uint)>>,
                       PyNone)
        s2 == enter(s1, "Cursor.overridden")
        s3 == IF raised(s2) THEN s2
              ELSE IF map_type_raises(s2, Logical("_CXCursor*")) THEN raise(s2, "KeyError")
              ELSE native(s2, "clang_getOverriddenCursors")
    IN  OverriddenCursors_init(s3, "Cursor", cursors)

\* SourceLocation(sl) as an object the caller keeps; it owns nothing.
SourceLocation_new(st, sl) ==
    new_object(SourceLocation_init(st, sl), "SourceLocation", "none", {})

(***************************************************************************)
(* cached_property.  The descriptor defines __get__ only, so an attribute  *)
(* of the instance with the name of the property is found first and the    *)
(* descriptor is not asked.  __get__ runs the wrapped function and sets    *)
(* the value on the instance under wrapped.__name__; the wrapped function  *)
(* is what requires returned, its inner function call.                     *)
(***************************************************************************)
CachedProperties == { "instantiation_location", "spelling_location" }

\* The __name__ of the function requires(...)(f) returns.
requires_name(f) == "call"

\* The function under the descriptor of a property, run on the location.
wrapped(st, prop, sl, w) ==
    IF prop = "instantiation_location"
    THEN SourceLocation_instantiation_location(st, sl, w)
    ELSE SourceLocation_spelling_location(st, sl, w)

\* setattr(instance, name, value) with the value just returned.
set_attribute(st, kind, name) ==
    IF raised(st) THEN st
    ELSE [st EXCEPT !.heap[kind].dict = (name :> st.val) @@ @]

cached_property_get(st, prop, sl, w) ==
    set_attribute(wrapped(st, prop, sl, w), "SourceLocation", requires_name(prop))

\* location.prop for a cached property of a SourceLocation.
SourceLocation_getattr(st, prop, sl, w) ==
    IF prop \in DOMAIN st.heap["SourceLocation"].dict
    THEN return(st, st.heap["SourceLocation"].dict[prop])
    ELSE cached_property_get(st, prop, sl, w)

\* The read is noted on the object once it has returned.
noted(st, kind, prop) ==
    IF raised(st) THEN st ELSE [st EXCEPT !.heap[kind].seen = @ \cup {prop}]

\* Token(t, tokens, tu): the token keeps the list and the translation unit.
Token_init(st, tokens, tu) ==
    LET s1 == requires(st, 27, NoName, <<>>, PyNone)
        s2 == enter(s1, "Token.__init__")
    IN  new_object(s2, "Token", "none", {tokens} \cup tu)

\* tokens[key] on a list that has a token at key: the Token gets the list
\* itself and the _tu of the list.
TokenList_getitem(st) ==
    LET s1 == requires(st, 27, NoName, <<>>, PyNone)
        s2 == enter(s1, "TokenList.__getitem__")
    IN  Token_init(s2, "TokenList", s2.heap["TokenList"].refs)

\* cursors[key] on a list that has a cursor at key: the Cursor gets no
\* parent and the _tu of the list.
OverriddenCursors_getitem(st) ==
    LET s1 == requires(st, 29, NoName, <<>>, PyNone)
        s2 == enter(s1, "OverriddenCursors.__getitem__")
        s3 == Cursor_init(s2, 1, "None", s2.heap["OverriddenCursors"].refs)
    IN  IF raised(s3) THEN s3 ELSE new_object(s3, "OverriddenCursor", "none", s3.val.tu)

\* cursor.extent, for its native call.
Cursor_extent(st) ==
    LET s1 == requires(st, 27, "clang_getCursorExtent", <<Logical("_CXCursor")>>,
                       _CXSourceRange)
        s2 == enter(s1, "Cursor.extent")
    IN  native(s2, "clang_getCursorExtent")

\* cursor.tokens: self._tu.tokenize is looked up before self.extent is
\* read; tu is the class of the object in _tu, and only a TranslationUnit
\* has a tokenize.
Cursor_tokens(st, tu, tokens) ==
    LET s1 == requires(st, 27, NoName, <<>>, PyNone)
        s2 == enter(s1, "Cursor.tokens")
    IN  IF raised(s2) THEN s2
        ELSE IF tu # "TranslationUnit" THEN raise(s2, "AttributeError")
        ELSE TranslationUnit_tokenize(Cursor_extent(s2), tokens)

(***************************************************************************)
(* The host's reference counting.  An object nothing refers to is          *)
(* finalized: its __del__ runs, an exception __del__ raises is reported    *)
(* and dropped, and then the references the object kept are released.      *)
(***************************************************************************)
unreferenced(st, kind) ==
    /\ st.heap[kind].obj = "alive"
    /\ ~st.heap[kind].held
    /\ \A k \in Kinds : st.heap[k].obj = "alive" => kind \notin st.heap[k].refs

run_del(st, kind) ==
    CASE kind = "Index" -> Index_del(st)
      [] kind = "TranslationUnit" -> TranslationUnit_del(st)
      [] kind = "Diagnostic" -> Diagnostic_del(st)
      [] kind = "TokenList" -> TokenList_del(st)
      [] kind = "OverriddenCursors" -> OverriddenCursors_del(st)
      [] OTHER -> st

finalize(st, kind) ==
    LET s1 == run_del(st, kind)
    IN  [s1 EXCEPT !.exc = "none",
                   !.unraisable = @ \cup (IF raised(s1) THEN {<<kind, s1.exc>>} ELSE {}),
                   !.heap[kind].obj = "gone"]

RECURSIVE sweep(_)
sweep(st) ==
    LET dead == { k \in Kinds : unreferenced(st, k) }
    IN  IF dead = {} THEN st
        ELSE sweep(finalize(st, CHOOSE k \in dead : TRUE))

\* del x: the caller gives up its reference to the wrapper.
del(st, kind) == sweep([st EXCEPT !.heap[kind].held = FALSE])

(***************************************************************************)
(* The operations a caller of the module can invoke.                       *)
(***************************************************************************)
\* load of a file that cannot be opened: LoadLibrary raises.
LoadFails == Commit("load", {}, load(Start, "None", NoVersion, FALSE, {}))

\* load of an installed shared object.
LoadInstalled ==
    \E L \in InstalledLibs : Commit("load", {}, load(Start, "None", NoVersion, TRUE, L))

\* load of a shared object exporting some combination of the markers.
LoadMarkerLib ==
    \E L \in MarkerLibs : Commit("load", {}, load(Start, "None", NoVersion, TRUE, L))

\* load between the creation and the release of wrappers.
LoadLife ==
    \E L \in LifeLibs : Commit("load", {}, load(Start, "None", NoVersion, TRUE, L))

\* load(name, version) with and without a name and a version override, of
\* a file that is there or not.
LibraryNames == { "None", "libclang", "/opt/llvm/lib/libclang" }
VersionOverrides == { NoVersion, 29, 34 }

LoadNamed ==
    \E name \in LibraryNames, ver \in VersionOverrides, found \in BOOLEAN :
        Commit("load", {<<name, ver>>}, load(Start, name, ver, found, ReleaseLib(34)))

\* Signatures a direct bind request can carry: the one the annotations of
\* clang_getCursor declare, and another one.
BindSig(tag) ==
    IF tag = "declared"
    THEN [argtypes |-> <<c_void_p, _CXSourceLocation>>, restype |-> Logical("_CXCursor")]
    ELSE [argtypes |-> <<c_void_p>>, restype |-> c_uint]
BindTags == { "declared", "other" }
BindNames == { "clang_getCursor", "clang_getDiagnosticOption" }

BindApi ==
    \E name \in BindNames, tag \in BindTags :
        Commit("_bind_api", {name, tag},
               _bind_api(Start, name, BindSig(tag).argtypes, BindSig(tag).restype))

FileName ==
    /\ Cardinality(live) + 1 <= MaxLive
    /\ \E valid \in BOOLEAN :
           Commit("File.name", Flag(valid, "valid"), File_name(Start, valid))

DiagnosticOption ==
    /\ Cardinality(live) + 2 <= MaxLive
    /\ \E valid1 \in BOOLEAN, valid2 \in BOOLEAN :
           Commit("Diagnostic._option", Flag(valid1, "valid1") \cup Flag(valid2, "valid2"),
                  Diagnostic_option(Start, valid1, valid2))

DiagnosticCategoryText ==
    /\ Cardinality(live) + 1 <= MaxLive
    /\ \E valid \in BOOLEAN :
           Commit("Diagnostic.category_text", Flag(valid, "valid"),
                  Diagnostic_category_text(Start, valid))

\* A range compared with ranges that have the same or another start and
\* the same or another end.
SourceRangeEq ==
    \E other \in {1, 2} \X {1, 2} :
        Commit("SourceRange.__eq__", {<<(<<1, 1>>), other>>},
               SourceRange_eq(Start, <<1, 1>>, other))

\* The pairs of handles with a null one on either side.
WithNull(null, handles) == { <<null, h>> : h \in handles } \cup { <<h, null>> : h \in handles }

\* The null range and the ranges between two locations that are there.
ProperRanges == {NullRange} \cup ((Locs \ {NullLocation}) \X (Locs \ {NullLocation}))

\* A range compared with the null range.
SourceRangeEqNull ==
    \E p \in WithNull(NullRange, ProperRanges) :
        Commit("SourceRange.__eq__", {p}, SourceRange_eq(Start, p[1], p[2]))

SourceRangeNe ==
    \E p \in WithNull(NullRange, ProperRanges) :
        Commit("SourceRange.__ne__", {p}, SourceRange_ne(Start, p[1], p[2]))

SourceRangeNull == Commit("SourceRange.null", {}, SourceRange_null(Start))

SourceLocationEq ==
    \E p \in WithNull(NullLocation, Locs) :
        Commit("SourceLocation.__eq__", {p}, SourceLocation_eq(Start, p[1], p[2]))

SourceLocationNe ==
    \E p \in WithNull(NullLocation, Locs) :
        Commit("SourceLocation.__ne__", {p}, SourceLocation_ne(Start, p[1], p[2]))

SourceLocationNull == Commit("SourceLocation.null", {}, SourceLocation_null(Start))

CursorEq ==
    \E p \in WithNull(NullCursor, CursorHandles) :
        Commit("Cursor.__eq__", {p}, Cursor_eq(Start, p[1], p[2]))

CursorNe ==
    \E p \in WithNull(NullCursor, CursorHandles) :
        Commit("Cursor.__ne__", {p}, Cursor_ne(Start, p[1], p[2]))

CursorNull == Commit("Cursor.null", {}, Cursor_null(Start))

TranslationUnitFile ==
    \E ret \in FileHandles :
        Commit("TranslationUnit.file", {ret}, TranslationUnit_file(Start, ret))

\* What a native location call can write: the null file or a file, and
\* any line, column and offset.
Writes == {NullFile, 1} \X (0..MaxLine) \X (0..MaxLine) \X (0..MaxLine)

\* The null location and another one, with what the native call writes
\* for them.
Located == { <<sl, written(sl, w)>> : sl \in {NullLocation, 1}, w \in Writes }

SourceLocationInstantiationLocation ==
    \E x \in Located :
        Commit("SourceLocation.instantiation_location", {x},
               SourceLocation_instantiation_location(Start, x[1], x[2]))

SourceLocationIsNull ==
    \E sl \in {NullLocation, 1} :
        Commit("SourceLocation.is_null", {<<sl, written(sl, <<NullFile, 0, 0, 0>>)>>},
               SourceLocation_is_null(Start, sl))

SourceLocationFile ==
    \E x \in Located :
        Commit("SourceLocation.file", {x}, SourceLocation_file(Start, x[1], x[2]))

SourceLocationLine ==
    \E x \in Located :
        Commit("SourceLocation.line", {x}, SourceLocation_line(Start, x[1], x[2]))

SourceLocationColumn ==
    \E x \in Located :
        Commit("SourceLocation.column", {x}, SourceLocation_column(Start, x[1], x[2]))

SourceLocationOffset ==
    \E x \in Located :
        Commit("SourceLocation.offset", {x}, SourceLocation_offset(Start, x[1], x[2]))

\* load of the oldest release.
LoadOldest == Commit("load", {}, load(Start, "None", NoVersion, TRUE, ReleaseLib(27)))

\* The integers a value class wraps here.
Values == -1..MaxValue

\* a == b of two instances of a value class.
ValueEq ==
    \E cls \in ValueClasses, x \in Values, y \in Values :
        Commit(cls \o ".__eq__", {<<x, y>>}, values_eq(two_values(Start, cls, x, y), cls))

ValueNe ==
    \E cls \in ValueClasses, x \in Values, y \in Values :
        Commit(cls \o ".__ne__", {<<x, y>>}, values_ne(two_values(Start, cls, x, y), cls))

\* hash(a) and hash(b) of two instances of a value class.
ValueHash ==
    \E cls \in ValueClasses, x \in Values, y \in Values :
        Commit(cls \o ".__hash__", {<<x, y>>}, values_hash(two_values(Start, cls, x, y), cls))

SourceRangeStart ==
    \E sr \in ProperRanges :
        Commit("SourceRange.start", {sr}, SourceRange_start(Start, sr))

SourceRangeEnd ==
    \E sr \in ProperRanges :
        Commit("SourceRange.end", {sr}, SourceRange_end(Start, sr))

TypeArgumentTypes ==
    \E n \in 0..1 :
        Commit("Type.argument_types", {n}, Type_argument_types(Start, n))

\* The code points of the texts: A (one byte) and the euro sign (three).
CodePoints == { 65, 8364 }

\* The texts of up to MaxText characters.
Texts == UNION { [1..n -> CodePoints] : n \in 0..MaxText }

\* The names of unsaved files: A and e-acute A.
FileNames == { << 65 >>, << 233, 65 >> }

\* The lists of up to two elements of S, and None.
ListsOf(S) == { NoSequence } \cup { Given(l) : l \in UNION { [1..n -> S] : n \in 0..2 } }

\* An unsaved file: stream says the contents are given as a stream.
UnsavedFiles == [ name : FileNames, contents : Texts, stream : BOOLEAN ]

MarshallArgs ==
    \E args \in ListsOf(Texts) :
        Commit("_marshall_args", {args}, _marshall_args(Start, args))

MarshallUnsavedFiles ==
    \E unsaved_files \in ListsOf(UnsavedFiles) :
        Commit("_marshall_unsaved_files", {unsaved_files},
               _marshall_unsaved_files(Start, unsaved_files))

TranslationUnitReparse ==
    \E unsaved_files \in { NoSequence, Given(<< [ name |-> << 65 >>, contents |-> << 8364 >>,
                                                  stream |-> FALSE ] >>) } :
        Commit("TranslationUnit.reparse", {unsaved_files},
               TranslationUnit_reparse(Start, unsaved_files))

\* The category numbers in use.
Categories == 0..2

DiagnosticCategoryNew ==
    \E value \in Categories :
        Commit("DiagnosticCategory", {value}, DiagnosticCategory_init(Start, value))

DiagnosticCategoryOf ==
    \E value \in Categories :
        Commit("Diagnostic.category", {value}, Diagnostic_category(Start, value))

CursorIsNull ==
    \E c \in CursorHandles : Commit("Cursor.is_null", {c}, Cursor_is_null(Start, c))

\* The sequences of children the native traversal can pass to the callback:
\* the null cursor and two others, in any order and number up to MaxChildren.
KidSeqs == UNION { [1..n -> {NullCursor, 1, 2}] : n \in 0..MaxChildren }

CursorChildren ==
    \E c \in {1}, kids \in KidSeqs :
        Commit("Cursor.children", {<<c, kids>>}, Cursor_children(Start, c, kids))

TranslationUnitLocation ==
    \E byName \in BOOLEAN, found \in BOOLEAN, hasLine \in BOOLEAN, hasOffset \in BOOLEAN :
        Commit("TranslationUnit.location",
               Flag(byName, "byName") \cup Flag(found, "found")
                   \cup Flag(hasLine, "hasLine") \cup Flag(hasOffset, "hasOffset"),
               TranslationUnit_location(Start, byName, found, hasLine, hasOffset))

TranslationUnitCursor ==
    \E atLocation \in BOOLEAN :
        Commit("TranslationUnit.cursor", Flag(atLocation, "atLocation"),
               TranslationUnit_cursor(Start, atLocation))

\* Handles a native constructor can return.
Handles == { "live", "none" }

Holds(kind) == heap[kind].obj = "alive" /\ heap[kind].held
Absent(kind) == heap[kind].obj = "absent"

\* What the native call writes for the location of the wrapper: the line
\* differs from one call to the next.
CachedWrites == { <<1, l, 1, 1>> : l \in 0..MaxLine }

SourceLocationNew ==
    /\ Absent("SourceLocation")
    /\ Commit("SourceLocation", {}, SourceLocation_new(Start, 1))

\* A read of a cached property of the location the caller holds.
SourceLocationRead ==
    /\ Holds("SourceLocation")
    /\ \E prop \in CachedProperties, w \in CachedWrites :
           Commit("getattr", {<<prop, w>>},
                  noted(SourceLocation_getattr(Start, prop, 1, w), "SourceLocation", prop))

IndexNew ==
    /\ Absent("Index")
    /\ Commit("Index", {}, Index_init(Start))

IndexFromAst ==
    /\ Holds("Index") /\ Absent("TranslationUnit")
    /\ \E tu \in Handles : Commit("Index.from_ast", {tu}, Index_from_ast(Start, tu))

IndexFromSource ==
    /\ Holds("Index") /\ Absent("TranslationUnit")
    /\ \E tu \in Handles : Commit("Index.from_source", {tu}, Index_from_source(Start, tu))

IndexParse ==
    /\ Holds("Index") /\ Absent("TranslationUnit")
    /\ \E tu \in Handles : Commit("Index.parse", {tu}, Index_parse(Start, tu))

TranslationUnitDiagnostics ==
    /\ Holds("TranslationUnit") /\ Absent("Diagnostic")
    /\ heap["TranslationUnit"].native = "live"
    /\ \E some \in BOOLEAN :
           Commit("TranslationUnit.diagnostics", Flag(some, "some"),
                  TranslationUnit_diagnostics(Start, some))

TranslationUnitTokenize ==
    /\ Holds("TranslationUnit") /\ Absent("TokenList")
    /\ heap["TranslationUnit"].native = "live"
    /\ \E tokens \in Handles :
           Commit("TranslationUnit.tokenize", {tokens},
                  TranslationUnit_tokenize(Start, tokens))

\* tu.cursor(): the cursor of the translation unit, which the caller keeps.
TranslationUnitCursorKept ==
    /\ Holds("TranslationUnit") /\ Absent("Cursor")
    /\ heap["TranslationUnit"].native = "live"
    /\ LET s1 == Cursor_init(TranslationUnit_cursor(Start, FALSE), 1, "None", "TranslationUnit")
       IN  Commit("TranslationUnit.cursor", {"kept"},
                  IF raised(s1) THEN s1 ELSE new_object(s1, "Cursor", "none", {s1.val.tu}))

CursorOverridden ==
    /\ Holds("Cursor") /\ Absent("OverriddenCursors")
    /\ \E cursors \in Handles :
           Commit("Cursor.overridden", {cursors}, Cursor_overridden(Start, cursors))

\* The classes of the Cursor objects the caller can hold.
CursorWrappers == { "Cursor", "OverriddenCursor" }

\* The object in the _tu of a wrapper that keeps one object.
TuOf(kind) == CHOOSE tu \in heap[kind].refs : TRUE

\* cursor.tokens of a cursor the caller holds.
CursorTokens ==
    \E kind \in CursorWrappers, tokens \in Handles :
        /\ Holds(kind) /\ Absent("TokenList")
        /\ Commit("Cursor.tokens", {kind, tokens}, Cursor_tokens(Start, TuOf(kind), tokens))

\* tokens[0] of a list the caller holds; a list without tokens has no item.
TokenListGetItem ==
    /\ Holds("TokenList") /\ Absent("Token")
    /\ heap["TokenList"].native = "live"
    /\ Commit("TokenList.__getitem__", {}, TokenList_getitem(Start))

\* cursors[0] of a list the caller holds; a list without cursors has no item.
OverriddenCursorsGetItem ==
    /\ Holds("OverriddenCursors") /\ Absent("OverriddenCursor")
    /\ heap["OverriddenCursors"].native = "live"
    /\ Commit("OverriddenCursors.__getitem__", {}, OverriddenCursors_getitem(Start))

Del ==
    \E kind \in Kinds :
        /\ Holds(kind)
        /\ Commit("del", {kind}, del(Start, kind))

(***************************************************************************)
(* Spec: the loader and the binder, with the operations that bind          *)
(* required and optional capabilities.                                     *)
(***************************************************************************)
Next ==
    \/ LoadFails
    \/ LoadInstalled
    \/ BindApi
    \/ SourceRangeEq
    \/ CursorIsNull
    \/ TranslationUnitLocation
    \/ TranslationUnitCursor

Spec == Init /\ [][Next]_vars

(***************************************************************************)
(* SpecDetect: the loader and the version detector over every combination  *)
(* of marker symbols.                                                      *)
(***************************************************************************)
NextDetect ==
    \/ LoadFails
    \/ LoadMarkerLib
    \/ BindApi

SpecDetect == Init /\ [][NextDetect]_vars

(***************************************************************************)
(* SpecOpt: the operations with an Optional annotation.                    *)
(***************************************************************************)
NextOpt ==
    \/ LoadInstalled
    \/ SourceRangeEq
    \/ CursorIsNull
    \/ TranslationUnitLocation
    \/ DiagnosticCategoryText

SpecOpt == Init /\ [][NextOpt]_vars

(***************************************************************************)
(* SpecStr: the operations that receive native strings.                    *)
(***************************************************************************)
NextStr ==
    \/ LoadInstalled
    \/ FileName
    \/ DiagnosticOption
    \/ DiagnosticCategoryText

SpecStr == Init /\ [][NextStr]_vars

(***************************************************************************)
(* SpecLife: the wrappers of native allocations, created and dropped in    *)
(* any order, with loads in between.                                       *)
(***************************************************************************)
NextLife ==
    \/ LoadLife
    \/ IndexNew
    \/ IndexFromAst
    \/ IndexFromSource
    \/ IndexParse
    \/ TranslationUnitDiagnostics
    \/ TranslationUnitTokenize
    \/ TranslationUnitCursorKept
    \/ CursorOverridden
    \/ Del

SpecLife == Init /\ [][NextLife]_vars

(***************************************************************************)
(* SpecLoad: load with a name and a version override, on any host.         *)
(***************************************************************************)
NextLoad ==
    \/ LoadNamed
    \/ LoadFails

SpecLoad == InitAnyHost /\ [][NextLoad]_vars

(***************************************************************************)
(* SpecLoc: the fields of a SourceLocation.                                *)
(***************************************************************************)
NextLoc ==
    \/ LoadLife
    \/ SourceLocationInstantiationLocation
    \/ SourceLocationIsNull
    \/ SourceLocationFile
    \/ SourceLocationLine
    \/ SourceLocationColumn
    \/ SourceLocationOffset

SpecLoc == Init /\ [][NextLoc]_vars

(***************************************************************************)
(* SpecVal: the comparisons and hashes of the value classes.               *)
(***************************************************************************)
NextVal ==
    \/ LoadOldest
    \/ ValueEq
    \/ ValueNe
    \/ ValueHash

SpecVal == Init /\ [][NextVal]_vars

(***************************************************************************)
(* SpecCalls: operations and the native functions they call.               *)
(***************************************************************************)
NextCalls ==
    \/ LoadInstalled
    \/ SourceRangeStart
    \/ SourceRangeEnd
    \/ TypeArgumentTypes
    \/ TranslationUnitReparse
    \/ TranslationUnitFile
    \/ DiagnosticCategoryOf

SpecCalls == Init /\ [][NextCalls]_vars

(***************************************************************************)
(* SpecRange: the ends and the comparison of SourceRange.                  *)
(***************************************************************************)
NextRange ==
    \/ LoadLife
    \/ SourceRangeStart
    \/ SourceRangeEnd
    \/ SourceRangeEq
    \/ SourceRangeNe

SpecRange == Init /\ [][NextRange]_vars

(***************************************************************************)
(* SpecMarshall: the arrays built for a native call.                       *)
(***************************************************************************)
NextMarshall ==
    \/ MarshallArgs
    \/ MarshallUnsavedFiles

SpecMarshall == Init /\ [][NextMarshall]_vars

(***************************************************************************)
(* SpecReload: loads of one library after another, with wrappers and       *)
(* bindings made in between.                                               *)
(***************************************************************************)
NextReload ==
    \/ LoadLife
    \/ IndexNew
    \/ Del
    \/ SourceRangeEq
    \/ CursorIsNull
    \/ TranslationUnitCursor

SpecReload == Init /\ [][NextReload]_vars

(***************************************************************************)
(* SpecItems: the lists of tokens and of overridden cursors, and the items *)
(* taken from them.                                                        *)
(***************************************************************************)
NextItems ==
    \/ LoadLife
    \/ IndexNew
    \/ IndexParse
    \/ TranslationUnitTokenize
    \/ TranslationUnitCursorKept
    \/ CursorOverridden
    \/ TokenListGetItem
    \/ OverriddenCursorsGetItem
    \/ CursorTokens
    \/ Del

SpecItems == Init /\ [][NextItems]_vars

(***************************************************************************)
(* SpecCached: reads of the cached properties of one SourceLocation.       *)
(***************************************************************************)
NextCached ==
    \/ LoadLife
    \/ SourceLocationNew
    \/ SourceLocationRead
    \/ Del

SpecCached == Init /\ [][NextCached]_vars

(***************************************************************************)
(* SpecUse: the operations whose returned value is specified.              *)
(***************************************************************************)
NextUse ==
    \/ LoadLife
    \/ CursorChildren
    \/ DiagnosticCategoryNew
    \/ DiagnosticCategoryOf
    \/ TranslationUnitFile

SpecUse == Init /\ [][NextUse]_vars

(***************************************************************************)
(* SpecEq: the null wrappers and the comparisons of SourceLocation,        *)
(* SourceRange and Cursor.                                                 *)
(***************************************************************************)
NextEq ==
    \/ LoadLife
    \/ SourceLocationNull
    \/ SourceLocationEq
    \/ SourceLocationNe
    \/ SourceRangeNull
    \/ SourceRangeEqNull
    \/ SourceRangeNe
    \/ CursorNull
    \/ CursorEq
    \/ CursorNe

SpecEq == Init /\ [][NextEq]_vars

(***************************************************************************)
(* Properties of the version detector and the registry (SpecDetect).       *)
(***************************************************************************)
\* The last operation was a load that returned normally.
LoadSucceeded == outcome.op = "load" /\ outcome.exc = "none"

\* The last operation was a load that opened a shared object.
LoadOpened == outcome.op = "load" /\ outcome.exc # "OSError"

\* The versions whose marker the held library exports.
PresentVersions ==
    { _version_checks[i].v : i \in { j \in DOMAIN _version_checks :
                                       _version_checks[j].api \in _libclang.syms } }

\* C1: a load of a library with at least one marker succeeds, and the
\* version it leaves is the highest version whose marker the library has:
\* a recognised version, never one whose own marker is absent, whatever
\* lower markers are present or absent.
C1_DetectHighest ==
    /\ (LoadOpened /\ PresentVersions # {}) => LoadSucceeded
    /\ LoadSucceeded =>
          /\ version \in Versions
          /\ version \in PresentVersions
          /\ \A v \in PresentVersions : v <= version
    /\ version # NoVersion => version \in Versions

\* C1 witness: 3.1 detected on a library lacking lower markers (3.0 and 2.7).
C1_Witness ==
    /\ LoadSucceeded
    /\ version = 31
    /\ PresentVersions = {31, 29, 28}

\* C2: a load that opens a library with none of the markers fails with the
\* "not a libclang library" error, and that call leaves version as it was.
C2_NoMarkerRejected ==
    [][ (outcome'.op = "load" /\ outcome'.exc # "OSError"
           /\ _libclang'.syms \cap Markers = {})
        => (outcome'.exc = "Exception" /\ version' = version) ]_vars

\* C2 witness: a rejected load after an earlier load detected 3.3.
C2_Witness ==
    /\ outcome.op = "load"
    /\ outcome.exc = "Exception"
    /\ _libclang.open
    /\ _libclang.syms \cap Markers = {}
    /\ version = 33

RegistryNames == { "_CXCursor", "_CXCursor*", "_CXCursor**", "cb_cursor_visitor" }

\* The four entries are present, each of its own shape, all on this layout.
RegistryOn(layout) ==
    /\ RegistryNames \subseteq DOMAIN _dynamic_types
    /\ _dynamic_types["_CXCursor"] = layout
    /\ _dynamic_types["_CXCursor*"] = T("POINTER", layout.base)
    /\ _dynamic_types["_CXCursor**"] = T("POINTER(POINTER)", layout.base)
    /\ _dynamic_types["cb_cursor_visitor"] = T("CFUNCTYPE", layout.base)

\* C7: after a successful load the four registry entries are present and
\* built on one layout: the extended one exactly when the version is at
\* least 3.0, the old one exactly when it is 2.7, 2.8 or 2.9.
C7_RegistryMatchesVersion ==
    LoadSucceeded =>
        /\ \/ RegistryOn(_CXCursor27)
           \/ RegistryOn(_CXCursor30)
        /\ RegistryOn(_CXCursor30) <=> version >= 30
        /\ RegistryOn(_CXCursor27) <=> version \in {27, 28, 29}

\* C7 witness: a load that detected 3.0, the first version of the extended layout.
C7_Witness ==
    /\ LoadSucceeded
    /\ version = 30
    /\ RegistryOn(_CXCursor30)

\* C8 as claimed: once a load has succeeded, no later operation changes the
\* version or a registry entry.
C8_VersionAndRegistryFrozen ==
    [][ version # NoVersion =>
          (version' = version /\ _dynamic_types' = _dynamic_types) ]_vars

(***************************************************************************)
(* Properties of the binder and the decorators (Spec).                     *)
(***************************************************************************)
\* The symbols the Required annotations of a function name.
RequiredOf(f) ==
    CASE f = "_to_str" -> { "clang_getCString", "clang_disposeString" }
      [] f = "File.name" -> { "clang_getFileName" }
      [] f = "Diagnostic._option" -> { "clang_getDiagnosticOption" }
      [] f = "DiagnosticCategory.name" -> { "clang_getDiagnosticCategoryName" }
      [] f = "Diagnostic.category" -> { "clang_getDiagnosticCategory" }
      [] f = "SourceLocation.__eq__" -> { "clang_equalLocations" }
      [] f = "SourceRange.start" -> { "clang_getRangeStart" }
      [] f = "SourceRange.end" -> { "clang_getRangeEnd" }
      [] f = "Cursor.null" -> { "clang_getNullCursor" }
      [] f = "Cursor.__eq__" -> { "clang_equalCursors" }
      [] f = "TranslationUnit.file" -> { "clang_getFile" }
      [] f = "TranslationUnit.location" -> { "clang_getLocation" }
      [] f = "TranslationUnit.cursor" -> { "clang_getTranslationUnitCursor", "clang_getCursor" }
      [] OTHER -> {}

\* The symbol the Optional annotation of an operation names.
OptionalOps ==
    { "SourceRange.__eq__", "Cursor.is_null", "TranslationUnit.location",
      "Diagnostic.category_text" }
OptionalOf(op) ==
    CASE op = "SourceRange.__eq__" -> "clang_equalRanges"
      [] op = "Cursor.is_null" -> "clang_Cursor_isNull"
      [] op = "TranslationUnit.location" -> "clang_getLocationForOffset"
      [] op = "Diagnostic.category_text" -> "clang_getDiagnosticCategoryText"

\* C3 as claimed: an operation with a Required annotation naming a symbol the
\* held library lacks raises MissingFunction and runs neither its body nor a
\* native call; a body that ran had every symbol its annotations name bound.
C3_RequiredAbsentRaises ==
    /\ \A op \in { "TranslationUnit.cursor", "TranslationUnit.location" } :
          (outcome.op = op /\ ~(RequiredOf(op) \subseteq _libclang.syms))
          => /\ outcome.exc = "MissingFunction"
             /\ op \notin outcome.ran
             /\ outcome.calls = <<>>
    /\ \A f \in outcome.ran : \A n \in RequiredOf(f) : _libclang.attr[n] = "bound"

\* C9 as claimed: no bind looks up a logical type name the registry lacks
\* (the lookup of a missing name is the KeyError of _map_type).
C9_RegistryHoldsEveryName == outcome.exc # "KeyError"

\* C4: on one library handle a symbol is looked up at most once and its
\* signature attached at most once, exactly once each for a bound symbol;
\* a bound symbol stays bound with the signature it has, whatever signature
\* a later bind request carries, until a load installs another handle.
C4_BindMemoized ==
    /\ [](\A n \in Symbols :
             /\ nlookup[n] <= 1
             /\ nbind[n] <= 1
             /\ _libclang.attr[n] = "bound" <=> nbind[n] = 1
             /\ _libclang.attr[n] = "bound" => nlookup[n] = 1)
    /\ [][ outcome'.op # "load" =>
             \A n \in Symbols :
                 _libclang.attr[n] = "bound" =>
                     /\ _libclang'.attr[n] = "bound"
                     /\ _libclang'.sig[n] = _libclang.sig[n]
                     /\ nbind'[n] = nbind[n]
                     /\ nlookup'[n] = nlookup[n] ]_vars

\* C4 witness: a bind request for clang_getCursor carrying the other
\* signature has returned, and the declared signature is still attached.
C4_Witness ==
    /\ outcome.op = "_bind_api"
    /\ outcome.arg = {"clang_getCursor", "other"}
    /\ outcome.exc = "none"
    /\ _libclang.attr["clang_getCursor"] = "bound"
    /\ _libclang.sig["clang_getCursor"].argtypes = <<c_void_p, _CXSourceLocation>>
    /\ _libclang.sig["clang_getCursor"].restype = _CXCursor30

(***************************************************************************)
(* Properties of the Optional annotation (SpecOpt).                        *)
(***************************************************************************)
\* Nothing but the optional symbol is missing for the call: the symbols the
\* fallback needs are in the library, the registry is filled, the inputs
\* are ones the operation accepts.
FallbackReady(op) ==
    CASE op = "SourceRange.__eq__" ->
             { "clang_getRangeStart", "clang_getRangeEnd", "clang_equalLocations" }
                 \subseteq _libclang.syms
      [] op = "Cursor.is_null" ->
             /\ { "clang_getNullCursor", "clang_equalCursors" } \subseteq _libclang.syms
             /\ "_CXCursor" \in DOMAIN _dynamic_types
      [] op = "TranslationUnit.location" ->
             /\ "clang_getLocation" \in _libclang.syms
             /\ "hasLine" \in outcome.arg
             /\ "byName" \in outcome.arg =>
                    ("found" \in outcome.arg /\ "clang_getFile" \in _libclang.syms)
      [] op = "Diagnostic.category_text" ->
             /\ { "clang_getDiagnosticCategory", "clang_getDiagnosticCategoryName",
                  "clang_getCString", "clang_disposeString" } \subseteq _libclang.syms
             /\ py3 => "valid" \in outcome.arg

\* C5 as claimed: every access to an Optional-wrapped operation whose symbol
\* the library lacks returns without raising, with the None sentinel stored;
\* this includes TranslationUnit.location called with a line and a column.
C5_OptionalAbsentNeverRaises ==
    \A op \in OptionalOps :
        (outcome.op = op /\ _libclang.open /\ OptionalOf(op) \notin _libclang.syms
           /\ FallbackReady(op))
        => (outcome.exc = "none" /\ _libclang.attr[OptionalOf(op)] = "None")

\* The operation takes its fallback path (for TranslationUnit.location: the
\* offset lookup is asked for and is not made).
TakesFallback(op, arg) ==
    op = "TranslationUnit.location" =>
        /\ "hasLine" \notin arg
        /\ "hasOffset" \in arg
        /\ "byName" \notin arg

\* C6: on the first invocation of an Optional-wrapped operation whose symbol
\* the library lacks, the bind failure is intercepted, None is stored on the
\* library under the symbol's name, the body runs, the absent function is
\* not called, and the body takes its fallback path.
C6_FirstAbsentUseFallsBack ==
    [][ \A op \in OptionalOps :
          (outcome'.op = op /\ _libclang.open
             /\ OptionalOf(op) \notin _libclang.syms
             /\ _libclang.attr[OptionalOf(op)] = "unset"
             /\ RequiredOf(op) \subseteq _libclang.syms)
          => /\ _libclang'.attr[OptionalOf(op)] = "None"
             /\ op \in outcome'.ran
             /\ \A i \in DOMAIN outcome'.calls : outcome'.calls[i] # OptionalOf(op)
             /\ TakesFallback(op, outcome'.arg) => outcome'.fallback ]_vars

\* C6 witness: SourceRange.__eq__ on a library without clang_equalRanges has
\* stored the sentinel and compared the starts and the ends.
C6_Witness ==
    /\ outcome.op = "SourceRange.__eq__"
    /\ "clang_equalRanges" \notin _libclang.syms
    /\ _libclang.attr["clang_equalRanges"] = "None"
    /\ outcome.fallback
    /\ outcome.exc = "none"
    /\ {"SourceRange.__eq__", "SourceRange.start", "SourceRange.end",
        "SourceLocation.__eq__"} \subseteq outcome.ran
    /\ Len(outcome.calls) = 6

(***************************************************************************)
(* Properties of the native strings (SpecStr).                             *)
(***************************************************************************)
\* C10 as claimed: after any number of string-returning accessor calls no
\* native string is left live, and no handle was disposed of twice.
C10_StringsDisposedOnce ==
    /\ live = {}
    /\ ~outcome.dfree
    /\ outcome.made = outcome.freed

\* The native call at position i of the last operation handed out string h.
Produced(i, h) ==
    /\ h \in outcome.hist[i]
    /\ outcome.calls[i] \notin { "clang_getCString", "clang_disposeString" }

\* The native call at position k of the last operation disposed of string h.
Disposed(k, h) ==
    /\ outcome.calls[k] = "clang_disposeString"
    /\ outcome.hist[k] = {h}

\* C11 as claimed: between the native call that hands out a string handle
\* and the clang_disposeString call that releases it, the only native calls
\* are clang_getCString reads of that same handle; this includes both
\* handles of an operation that receives two from one native call.
C11_NothingBetweenReceiveAndDispose ==
    \A i \in DOMAIN outcome.calls, k \in DOMAIN outcome.calls, h \in 1..MaxLive :
        (i < k /\ Produced(i, h) /\ Disposed(k, h))
        => \A j \in (i + 1)..(k - 1) :
               /\ outcome.calls[j] = "clang_getCString"
               /\ outcome.hist[j] = {h}

(***************************************************************************)
(* Properties of the wrappers of native allocations (SpecLife).            *)
(***************************************************************************)
\* The wrapper classes that dispose of a native allocation.
Owners == { "Diagnostic", "TokenList", "OverriddenCursors", "TranslationUnit", "Index" }

\* Position of the first call of a native function in the last operation,
\* 0 when it was not called.
CallAt(name) ==
    IF \E i \in DOMAIN outcome.calls : outcome.calls[i] = name
    THEN CHOOSE i \in DOMAIN outcome.calls :
             /\ outcome.calls[i] = name
             /\ \A j \in DOMAIN outcome.calls : outcome.calls[j] = name => i <= j
    ELSE 0

\* C12 as claimed: the allocation a wrapper holds is disposed of exactly
\* once when the wrapper is dropped: not before, not twice, and never left
\* undisposed by a wrapper that is gone.
C12_DisposedOnceWhenDropped ==
    \A k \in Owners :
        heap[k].native # "none" =>
            /\ heap[k].ndisp <= 1
            /\ heap[k].obj = "alive" => (heap[k].ndisp = 0 /\ heap[k].native = "live")
            /\ heap[k].obj = "gone" => (heap[k].ndisp = 1 /\ heap[k].native = "disposed")

\* C13 as claimed: no state has the translation unit's allocation disposed
\* while the allocation of a Diagnostic or TokenList obtained from it is
\* still live, and within one operation their disposals precede its own.
C13_DiagnosticsAndTokensDieFirst ==
    /\ heap["TranslationUnit"].native = "disposed" =>
           /\ heap["Diagnostic"].native # "live"
           /\ heap["TokenList"].native # "live"
    /\ \A n \in { "clang_disposeDiagnostic", "clang_disposeTokens" } :
           (CallAt(n) # 0 /\ CallAt("clang_disposeTranslationUnit") # 0)
           => CallAt(n) < CallAt("clang_disposeTranslationUnit")

\* C14 as claimed: no state has the index's allocation disposed while the
\* allocation of the translation unit created from it (by from_ast,
\* from_source or parse) is undisposed, and when one operation disposes of
\* both, the translation unit goes first; this holds for every order of
\* dropping the references.
C14_IndexOutlivesTranslationUnit ==
    /\ heap["Index"].native = "disposed" => heap["TranslationUnit"].native # "live"
    /\ (CallAt("clang_disposeIndex") # 0 /\ CallAt("clang_disposeTranslationUnit") # 0)
       => CallAt("clang_disposeTranslationUnit") < CallAt("clang_disposeIndex")

(***************************************************************************)
(* Properties of the returned values (SpecUse).                            *)
(***************************************************************************)
\* The held library is a libclang release.
LoadedRelease == _libclang.open /\ _libclang.syms \cap Markers # {}

\* The input of the last operation.
Input == CHOOSE x \in outcome.arg : TRUE

NonNull(c) == c # NullCursor

\* How often the last operation called a native function.
CallCount(name) == Cardinality({ i \in DOMAIN outcome.calls : outcome.calls[i] = name })

\* C15: Cursor.children returns the children the native traversal passed to
\* the callback, in that order, without those equal to the null cursor and
\* with nothing else removed, added or moved; every child was visited (the
\* callback never answers break), and every element has the traversed
\* cursor as its parent.
C15_ChildrenAreTheNonNullKids ==
    (outcome.op = "Cursor.children" /\ LoadedRelease) =>
        LET c == Input[1]
            kids == Input[2]
            kept == SelectSeq(kids, NonNull)
        IN  /\ outcome.exc = "none"
            /\ outcome.unraisable = {}
            /\ CallCount("clang_visitChildren") = 1
            /\ CallCount("clang_getNullCursor") = Len(kids)
            /\ Len(outcome.val) = Len(kept)
            /\ \A i \in DOMAIN kept :
                   /\ outcome.val[i].c = kept[i]
                   /\ outcome.val[i].parent = c

\* C15 witness: a null child between two others was dropped and the two
\* others were kept in their order.
C15_Witness ==
    /\ outcome.op = "Cursor.children"
    /\ outcome.exc = "none"
    /\ Input[2] = <<2, NullCursor, 1>>
    /\ Len(outcome.val) = 2
    /\ outcome.val[1].c = 2
    /\ outcome.val[2].c = 1

\* The null handle of a kind of wrapper.
NullOf(kind) ==
    CASE kind = "SourceLocation" -> NullLocation
      [] kind = "SourceRange" -> NullRange
      [] kind = "Cursor" -> NullCursor

\* A handle of an entity that is there: for a range, one between two
\* locations that are there.
NonNullOf(kind, h) ==
    IF kind = "SourceRange" THEN h[1] # NullLocation /\ h[2] # NullLocation
    ELSE h # NullOf(kind)

\* C16 as claimed: on a loaded release, for SourceLocation, SourceRange and
\* Cursor, null() yields the null handle, two null wrappers compare equal
\* (== is True, != is False), and a null wrapper and a non-null one compare
\* unequal (== is False, != is True), in either order.
C16_NullEqualsOnlyNull ==
    \A kind \in { "SourceLocation", "SourceRange", "Cursor" } :
        LET null == NullOf(kind)
            Wrapped == IF kind = "Cursor" THEN outcome.val.c ELSE outcome.val
            BothNull == Input[1] = null /\ Input[2] = null
            OneNull == \/ Input[1] = null /\ NonNullOf(kind, Input[2])
                       \/ Input[2] = null /\ NonNullOf(kind, Input[1])
        IN  LoadedRelease =>
            /\ outcome.op = kind \o ".null" =>
                   (outcome.exc = "none" /\ Wrapped = null)
            /\ outcome.op = kind \o ".__eq__" =>
                   /\ outcome.exc = "none"
                   /\ BothNull => outcome.val = TRUE
                   /\ OneNull => outcome.val = FALSE
            /\ outcome.op = kind \o ".__ne__" =>
                   /\ outcome.exc = "none"
                   /\ BothNull => outcome.val = FALSE
                   /\ OneNull => outcome.val = TRUE

\* The minimum version the Required annotation of an operation declares.
RequiredOps == { "DiagnosticCategory", "Diagnostic.category" }
RequiredVersion(op) ==
    CASE op = "DiagnosticCategory" -> 29
      [] op = "Diagnostic.category" -> 29

\* C17 as claimed: on a loaded release whose detected version is lower than
\* the version the Required annotation of an operation declares, invoking
\* the operation raises MissingFunction, whether the annotation names a
\* symbol or only a version.
C17_OlderLibraryRaises ==
    \A op \in RequiredOps :
        (outcome.op = op /\ LoadedRelease /\ version \in PresentVersions
           /\ version < RequiredVersion(op))
        => outcome.exc = "MissingFunction"

\* C18: whenever TranslationUnit.file has made the native lookup, it raises
\* the "not in the translation unit" error if the lookup answered null and
\* otherwise returns a File wrapping the handle the lookup answered; on a
\* loaded release the lookup is made, and no File wraps the null handle.
C18_FileLookupChecked ==
    outcome.op = "TranslationUnit.file" =>
        /\ LoadedRelease => CallCount("clang_getFile") = 1
        /\ CallCount("clang_getFile") = 1 =>
               /\ Input = NullFile => outcome.exc = "Exception"
               /\ Input # NullFile => (outcome.exc = "none" /\ outcome.val = [f |-> Input])
        /\ outcome.exc = "none" => outcome.val.f # NullFile

\* C18 witness: the lookup answered null and the call raised.
C18_Witness ==
    /\ outcome.op = "TranslationUnit.file"
    /\ outcome.calls = << "clang_getFile" >>
    /\ Input = NullFile
    /\ outcome.exc = "Exception"

(***************************************************************************)
(* Properties of the name load opens (SpecLoad).                           *)
(***************************************************************************)
\* The extension the claim gives for a host.
HostExtension ==
    CASE _system = "Darwin" -> "dylib"
      [] _system = "Linux" -> "so"
      [] _system = "Windows" -> "dll"
      [] OTHER -> "unknown"

\* C19: load(name, version) passes exactly one file name to the system
\* loader: the name (libclang when none is given), then "-" and the version
\* when a version override is given, then "." and the extension of the
\* host; on a host other than Darwin, Linux and Windows it fails without
\* opening a file and leaves the library handle as it was.
C19_LoadOpensNamedFile ==
    [][ (outcome'.op = "load" /\ outcome'.arg # {}) =>
          LET name == (CHOOSE x \in outcome'.arg : TRUE)[1]
              ver == (CHOOSE x \in outcome'.arg : TRUE)[2]
              base == IF name = "None" THEN "libclang" ELSE name
              suffix == CASE ver = NoVersion -> ""
                          [] ver = 29 -> "-2.9"
                          [] ver = 34 -> "-3.4"
          IN  IF _system \in { "Darwin", "Linux", "Windows" }
              THEN outcome'.opened = << base \o suffix \o "." \o HostExtension >>
              ELSE /\ outcome'.opened = <<>>
                   /\ outcome'.exc # "none"
                   /\ _libclang' = _libclang ]_vars

\* C19 witness: on Darwin, a load with no name and the override 3.4 has
\* opened libclang-3.4.dylib.
C19_Witness ==
    /\ outcome.op = "load"
    /\ outcome.arg = { <<"None", 34>> }
    /\ _system = "Darwin"
    /\ outcome.opened = << "libclang-3.4.dylib" >>
    /\ outcome.exc = "none"

(***************************************************************************)
(* Properties of the fields of a SourceLocation (SpecLoc).                 *)
(***************************************************************************)
LocationOps ==
    { "SourceLocation.instantiation_location", "SourceLocation.is_null",
      "SourceLocation.file", "SourceLocation.line", "SourceLocation.column",
      "SourceLocation.offset" }

\* C20: on a loaded release the null SourceLocation has line, column and
\* offset 0 and file None, read directly and through instantiation_location,
\* and its is_null is True; and whenever the native call wrote the null file
\* handle, the record has file None and the line, column and offset the
\* native call wrote.
C20_NullLocationFields ==
    (outcome.op \in LocationOps /\ LoadedRelease) =>
        LET sl == Input[1]
            f == Input[2][1]
            l == Input[2][2]
            c == Input[2][3]
            o == Input[2][4]
        IN  /\ outcome.exc = "none"
            /\ outcome.op = "SourceLocation.is_null" => outcome.val = (sl = NullLocation)
            /\ (outcome.op = "SourceLocation.instantiation_location" /\ sl = NullLocation)
                   => outcome.val = [ file |-> AbsentFile, line |-> 0, column |-> 0,
                                      offset |-> 0 ]
            /\ (outcome.op = "SourceLocation.instantiation_location" /\ f = NullFile)
                   => outcome.val = [ file |-> AbsentFile, line |-> l, column |-> c,
                                      offset |-> o ]
            /\ (outcome.op = "SourceLocation.file" /\ (sl = NullLocation \/ f = NullFile))
                   => outcome.val = AbsentFile
            /\ outcome.op = "SourceLocation.line"
                   => outcome.val = IF sl = NullLocation THEN 0 ELSE l
            /\ outcome.op = "SourceLocation.column"
                   => outcome.val = IF sl = NullLocation THEN 0 ELSE c
            /\ outcome.op = "SourceLocation.offset"
                   => outcome.val = IF sl = NullLocation THEN 0 ELSE o

\* C20 witness: the record of the null location has been read on a loaded
\* release, after one native call, and has file None and zeros.
C20_Witness ==
    /\ outcome.op = "SourceLocation.instantiation_location"
    /\ LoadedRelease
    /\ Input[1] = NullLocation
    /\ outcome.calls = << "clang_getInstantiationLocation" >>
    /\ outcome.val = [ file |-> AbsentFile, line |-> 0, column |-> 0, offset |-> 0 ]

(***************************************************************************)
(* Properties of the value classes (SpecVal).                              *)
(***************************************************************************)
\* C21: for two instances a, b of one value class, whatever is loaded,
\* a == b is True exactly when a.value == b.value, a != b is the negation
\* of that, and hash(a) == hash(b) whenever a.value == b.value; none of the
\* three raises.
C21_ValueEquality ==
    \A cls \in ValueClasses :
        /\ outcome.op = cls \o ".__eq__" =>
               (outcome.exc = "none" /\ outcome.val = (Input[1] = Input[2]))
        /\ outcome.op = cls \o ".__ne__" =>
               (outcome.exc = "none" /\ outcome.val = ~(Input[1] = Input[2]))
        /\ outcome.op = cls \o ".__hash__" =>
               /\ outcome.exc = "none"
               /\ Input[1] = Input[2] => outcome.val[1] = outcome.val[2]

\* C21 witness: two TranslationUnitFlags with different values, the lesser
\* first, compared with != on a 2.7 library, which answered True.
C21_Witness ==
    /\ outcome.op = "TranslationUnitFlags.__ne__"
    /\ LoadedRelease
    /\ version = 27
    /\ Input = <<-1, 0>>
    /\ outcome.val = TRUE

(***************************************************************************)
(* Properties of the native calls of an operation (SpecCalls).             *)
(***************************************************************************)
\* C22 as claimed: every native function an operation has called is one
\* that has its signature attached on the library: no call goes through an
\* entry that still has the default signature.
C22_CallsAreBound ==
    \A i \in DOMAIN outcome.calls : _libclang.attr[outcome.calls[i]] = "bound"

(***************************************************************************)
(* Properties of the ends of a SourceRange (SpecRange).                    *)
(***************************************************************************)
\* C23 as claimed: on a loaded release SourceRange.end returns the end of
\* the range, and a comparison of two ranges that took the fallback (the
\* library has no clang_equalRanges) and returned answers True exactly when
\* the starts are equal and the ends are equal.
C23_FallbackComparesStartAndEnd ==
    LoadedRelease =>
        /\ (outcome.op = "SourceRange.end" /\ outcome.exc = "none")
               => outcome.val = clang_getRangeEnd(Input)
        /\ (outcome.op = "SourceRange.__eq__" /\ outcome.fallback /\ outcome.exc = "none")
               => outcome.val = (/\ clang_getRangeStart(Input[1]) = clang_getRangeStart(Input[2])
                                 /\ clang_getRangeEnd(Input[1]) = clang_getRangeEnd(Input[2]))

(***************************************************************************)
(* Properties of TranslationUnit.location (Spec).                          *)
(***************************************************************************)
\* C24 as claimed: on a loaded release TranslationUnit.location resolves a
\* file given by name first and fails there if the unit does not have it;
\* then, with a line, it answers from clang_getLocation alone; without a
\* line, with an offset and with clang_getLocationForOffset in the library,
\* it answers from clang_getLocationForOffset alone; in every other case it
\* raises the "unable to determine" error after no lookup.
C24_LocationLookupChoice ==
    (outcome.op = "TranslationUnit.location" /\ LoadedRelease) =>
        LET resolved == IF "byName" \in outcome.arg THEN << "clang_getFile" >> ELSE <<>>
        IN  IF "byName" \in outcome.arg /\ "found" \notin outcome.arg
            THEN outcome.exc = "Exception" /\ ~outcome.fallback
                     /\ outcome.calls = << "clang_getFile" >>
            ELSE IF "hasLine" \in outcome.arg
            THEN outcome.exc = "none"
                     /\ outcome.calls = resolved \o << "clang_getLocation" >>
            ELSE IF "hasOffset" \in outcome.arg /\ "clang_getLocationForOffset" \in _libclang.syms
            THEN outcome.exc = "none"
                     /\ outcome.calls = resolved \o << "clang_getLocationForOffset" >>
            ELSE outcome.exc = "Exception" /\ outcome.fallback
                     /\ outcome.calls = resolved

(***************************************************************************)
(* Properties of the marshalled arrays (SpecMarshall).                     *)
(***************************************************************************)
\* The number of bytes UTF-8 takes for a code point and for a text.
ByteCount(cp) == IF cp < 128 THEN 1 ELSE IF cp < 2048 THEN 2 ELSE IF cp < 65536 THEN 3 ELSE 4

RECURSIVE ByteLength(_)
ByteLength(text) == IF text = <<>> THEN 0 ELSE ByteCount(Head(text)) + ByteLength(Tail(text))

\* C25: _marshall_args and _marshall_unsaved_files return (0, None) for a
\* sequence that is None or empty, and otherwise the length of the sequence
\* and an array of that many elements, element i made from item i: the
\* argument has as many bytes as its UTF-8 encoding, and the length field
\* of an unsaved file is the number of bytes of the UTF-8 encoding of its
\* contents, given as a text or as a stream.
C25_MarshalledArrays ==
    outcome.op \in { "_marshall_args", "_marshall_unsaved_files" } =>
        LET items == Input.items
            n == outcome.val[1]
            array == outcome.val[2]
        IN  /\ outcome.exc = "none"
            /\ IF ~Input.given \/ items = <<>>
               THEN n = 0 /\ array.null
               ELSE /\ n = Len(items)
                    /\ ~array.null
                    /\ Len(array.items) = n
                    /\ \A i \in 1..n :
                           IF outcome.op = "_marshall_args"
                           THEN /\ array.items[i] = encode(items[i])
                                /\ Len(array.items[i]) = ByteLength(items[i])
                           ELSE /\ array.items[i].filename = encode(items[i].name)
                                /\ array.items[i].contents = encode(items[i].contents)
                                /\ array.items[i].length = ByteLength(items[i].contents)

\* C25 witness: two unsaved files, the first with the euro sign as its
\* contents, given as a stream, came out in that order and the first has
\* length 3.
C25_Witness ==
    /\ outcome.op = "_marshall_unsaved_files"
    /\ Input.given
    /\ Len(Input.items) = 2
    /\ Input.items[1].contents = << 8364 >>
    /\ Input.items[1].stream
    /\ Input.items[2].contents = << 65 >>
    /\ outcome.val[1] = 2
    /\ outcome.val[2].items[1].length = 3
    /\ outcome.val[2].items[2].length = 1

(***************************************************************************)
(* Properties of a reload (SpecReload).                                    *)
(***************************************************************************)
CursorLayouts == { _CXCursor27.base, _CXCursor30.base }

\* The types of a signature.
TypesOf(sig) == { sig.argtypes[i] : i \in DOMAIN sig.argtypes } \cup { sig.restype }

\* No type of the signature is an unresolved name, and every type built on
\* a cursor layout is built on the layout of the registry.
OnRegistry(sig, registry) ==
    \A t \in TypesOf(sig) :
        /\ t.ctor # "str"
        /\ t.base \in CursorLayouts => t.base = registry["_CXCursor"].base

\* C26: a load that succeeds leaves a library handle on which no symbol is
\* bound and none holds the None of an absent optional symbol, whatever the
\* previous handle held, and a registry on the layout of the new version;
\* from then on a symbol that becomes bound has been looked up once, in the
\* new library, and has its signature attached once, resolved against that
\* registry.
C26_ReloadStartsFresh ==
    /\ [][ (outcome'.op = "load" /\ outcome'.exc = "none") =>
             /\ \A n \in Symbols :
                    /\ _libclang'.attr[n] \in { "unset", "func" }
                    /\ _libclang'.attr[n] = "func" => n \in _libclang'.syms /\ nlookup'[n] = 1
                    /\ _libclang'.sig[n] = DefaultSig
                    /\ nbind'[n] = 0
             /\ _dynamic_types'["_CXCursor"] =
                    IF version' >= 30 THEN _CXCursor30 ELSE _CXCursor27 ]_vars
    /\ [][ (outcome'.op # "load" /\ _libclang'.open /\ _libclang'.syms \cap Markers # {}) =>
             \A n \in Symbols :
                 (_libclang.attr[n] # "bound" /\ _libclang'.attr[n] = "bound") =>
                     /\ n \in _libclang'.syms
                     /\ nlookup'[n] = 1
                     /\ nbind'[n] = 1
                     /\ OnRegistry(_libclang'.sig[n], _dynamic_types') ]_vars

\* C26 witness: an Index made on an earlier library handle is still held
\* (clang_createIndex is not bound on the present handle), the present
\* library is a 3.0, and Cursor.is_null has bound clang_Cursor_isNull on it
\* with the extended cursor layout.
C26_Witness ==
    /\ heap["Index"].obj = "alive"
    /\ _libclang.attr["clang_createIndex"] = "unset"
    /\ version = 30
    /\ _libclang.syms \cap Markers # {}
    /\ outcome.op = "Cursor.is_null"
    /\ outcome.exc = "none"
    /\ _libclang.attr["clang_Cursor_isNull"] = "bound"
    /\ nlookup["clang_Cursor_isNull"] = 1
    /\ _libclang.sig["clang_Cursor_isNull"].argtypes = << _CXCursor30 >>

(***************************************************************************)
(* Properties of the items of a native list (SpecItems).                   *)
(***************************************************************************)
\* The list in whose native buffer the structure of an item lies.
BufferOf(item) == IF item = "Token" THEN "TokenList" ELSE "OverriddenCursors"

\* C27 as claimed: while a Token taken from a TokenList, or a Cursor taken
\* from an OverriddenCursors list, is alive, the list wrapper is alive too
\* and the native buffer of the list has not been disposed.
C27_ItemsKeepTheirList ==
    \A item \in { "Token", "OverriddenCursor" } :
        heap[item].obj = "alive" =>
            /\ heap[BufferOf(item)].obj = "alive"
            /\ heap[BufferOf(item)].native = "live"

(***************************************************************************)
(* Properties of a load that fails (Spec).                                 *)
(***************************************************************************)
\* C28 as claimed: a load that raises in version detection leaves the
\* library handle, the version and the registry as they were before it.
C28_FailedDetectionChangesNothing ==
    [][ (outcome'.op = "load" /\ outcome'.exc = "Exception") =>
          /\ _libclang' = _libclang
          /\ version' = version
          /\ _dynamic_types' = _dynamic_types ]_vars

(***************************************************************************)
(* Properties of the cached properties (SpecCached).                       *)
(***************************************************************************)
\* C29 as claimed: a cached property that has been read has its value
\* stored on the instance under its own name, and a later read of it on
\* the same instance makes no native call and returns the stored value.
C29_CachedReadsCallOnce ==
    /\ [](\A prop \in heap["SourceLocation"].seen :
              prop \in DOMAIN heap["SourceLocation"].dict)
    /\ [][ \A prop \in heap["SourceLocation"].seen :
               (outcome'.op = "getattr" /\ outcome'.exc = "none"
                /\ outcome'.arg \subseteq {prop} \X CachedWrites) =>
                   /\ outcome'.calls = <<>>
                   /\ prop \in DOMAIN heap["SourceLocation"].dict
                   /\ outcome'.val = heap["SourceLocation"].dict[prop] ]_vars

\* C30 as claimed: the translation-unit back-reference of every Cursor the
\* caller can hold, the items of an OverriddenCursors list included, is a
\* TranslationUnit, and Cursor.tokens tokenizes through it, so it does not
\* fail for want of a tokenize method.
C30_CursorsReferToTheirTranslationUnit ==
    /\ \A kind \in CursorWrappers :
           heap[kind].obj = "alive" => heap[kind].refs = { "TranslationUnit" }
    /\ outcome.op = "Cursor.tokens" => outcome.exc # "AttributeError"

====
